---- MODULE Spec2Model ----
(***************************************************************************)
(* Healthy-basket: the MCP tool-invocation facade (src/src/core/           *)
(* mcp_client.py), the rule-based intent classifier and the orchestration  *)
(* service (src/src/groceries/service.py).                                 *)
(*                                                                         *)
(* Seven specifications share the variables below; each leaves the other    *)
(* components' variables at their initial values:                          *)
(*   SpecRpc    one logical call of MCPClient (list_tools, call_tool,      *)
(*              initialize) against a nondeterministic tool host;          *)
(*   SpecParse  parse_mcp_content_text on bounded content lists;           *)
(*   SpecIntent _analyze_query_intent_rule_based on bounded queries;       *)
(*   SpecExec   service.execute against an injected tool invoker;          *)
(*   SpecCache  calls of execute on several threads sharing the intent     *)
(*              cache;                                                     *)
(*   SpecHttp   the two analyze endpoints of src/web_ui.py serving one     *)
(*              request;                                                   *)
(*   SpecLlm    one call of BedrockLLMClient.invoke or invoke_text         *)
(*              (src/src/core/llm_client.py) against a provider that       *)
(*              answers or fails as it likes.                              *)
(***************************************************************************)
EXTENDS Integers, Sequences, FiniteSets, TLC

VARIABLES
    pResult,    \* SpecParse: the tool result handed to parse_mcp_content_text
    pDone,      \* SpecParse: the call has returned
    pOut        \* SpecParse: the value it returned (JNull is None)

parseVars == <<pResult, pDone, pOut>>

VARIABLES
    rpcPc,      \* SpecRpc: "idle", "request" (inside _rpc's loop), "returned", "raised"
    rpcOp,      \* the facade method called: list_tools, call_tool, initialize
    rpcTool,    \* call_tool's tool name
    attempt,    \* _rpc's loop variable
    rpcEvents,  \* the HTTP requests and sleeps of the current logical call, in order
    rpcOut,     \* what the facade method returned or raised
    rpcSession  \* server_info and capabilities stored by initialize

rpcVars == <<rpcPc, rpcOp, rpcTool, attempt, rpcEvents, rpcOut, rpcSession>>

VARIABLES
    iQuery,     \* SpecIntent: the query handed to the rule-based classifier
    iDone,      \* SpecIntent: the call has returned
    iIntent     \* SpecIntent: the intent it returned

intentVars == <<iQuery, iDone, iIntent>>

VARIABLES
    xPc,        \* SpecExec: where execute is: "idle", "intent", "call", "enrich",
                \* "analysis", "returned", "raised"
    xReq,       \* execute's arguments and the kind of its tool invoker
    xIntent,    \* the intent dict
    xRaw,       \* the selected tool's result as call_tool returned it
    xParsed,    \* parse_mcp_content_text of that result
    xHits,      \* the enricher's `hits`
    xNext,      \* the place in hits[:max(0, top_n)] of the hit the loop is at; 0
                \* as long as the enricher has not reached its loop
    xEnriched,  \* the enricher's `enriched_hits`
    xCalls,     \* the calls made on the tool invoker and the LLM client, in order
    xOut,       \* what execute returned or raised
    xCache,     \* _INTENT_CACHE
    xText       \* the text invoke_text returned for the analysis prompt

execVars ==
    <<xPc, xReq, xIntent, xRaw, xParsed, xHits, xNext, xEnriched, xCalls, xOut, xCache,
      xText>>

VARIABLES
    th,             \* SpecCache: each thread's call of execute: where it is ("idle",
                    \* "settings", "intent", "hit", "miss", "parse", "rest"), its
                    \* arguments, the cache entry of its key when it began, the
                    \* LLM's text, the intent, where the intent came from, and its
                    \* calls of the LLM for the classification
    intentCache,    \* _INTENT_CACHE of service.py, shared by the threads
    cachedSettings, \* _cached_settings of config.py, shared by the threads
    writes,         \* for each shared location assigned so far, the values assigned
                    \* to it, in order, an intent with the query of the call that stored it
    ruleServed,     \* the calls with use_llm = False that went past the
                    \* classification: query, intent, and the cache entry seen
    ruleAccesses,   \* what the calls with use_llm = False did to the cache and the
                    \* LLM client so far
    raced,          \* a call ended with a KeyError from the cache
    started,        \* the number of calls begun
    overlap         \* a call began while another thread's call was running

cacheVars ==
    <<th, intentCache, cachedSettings, writes, ruleServed, ruleAccesses, raced, started,
      overlap>>

VARIABLES
    hEndpoint,  \* SpecHttp: the path of the request
    hReq,       \* the handler's parameters query and use_llm
    hOutcome,   \* how the handler's call of execute ends
    hResponse   \* the response sent, NoResponse before

httpVars == <<hEndpoint, hReq, hOutcome, hResponse>>

VARIABLES
    lPc,        \* SpecLlm: where the call is: "idle", "loop", "text", "returned",
                \* "raised"
    lCall,      \* the method called and its arguments retries and base_delay_s
    lAttempt,   \* the loop variable `attempt`
    lEvents,    \* the provider calls and the sleeps so far, in order
    lData,      \* what invoke returned to invoke_text
    lOut        \* what the call returned or raised

llmVars == <<lPc, lCall, lAttempt, lEvents, lData, lOut>>

vars == <<parseVars, rpcVars, intentVars, execVars, cacheVars, httpVars, llmVars>>

(***************************************************************************)
(* JSON values.  Python values that the code inspects with isinstance are  *)
(* tagged records: t is the Python type, v the payload.                    *)
(***************************************************************************)
JNull == [t |-> "null"]

JBool(b) == [t |-> "bool", v |-> b]

JNum(n) == [t |-> "num", v |-> n]

JStr(s) == [t |-> "str", v |-> s]

\* a float, held as the decimal text that repr() and json.dumps write for it
JFloat(text) == [t |-> "float", v |-> text]

JArr(q) == [t |-> "arr", v |-> q]

JObj(f) == [t |-> "obj", v |-> f]

EmptyMap == [k \in {} |-> JNull]

IsDict(x) == x.t = "obj"

IsList(x) == x.t = "arr"

IsStr(x) == x.t = "str"

\* `key in d` for a dict d
Has(d, key) == key \in DOMAIN d.v

\* d.get(key): None when the key is absent
Get(d, key) == IF key \in DOMAIN d.v THEN d.v[key] ELSE JNull

\* d.get(key, default)
GetOr(d, key, default) == IF key \in DOMAIN d.v THEN d.v[key] ELSE default

\* Python truthiness (bool(x))
Truthy(x) ==
    CASE x.t = "null" -> FALSE
      [] x.t = "bool" -> x.v
      [] x.t = "num" -> x.v # 0
      [] x.t = "float" -> \E i \in 1..Len(x.v) : SubSeq(x.v, i, i) \notin {"0", ".", "-"}
      [] x.t = "str" -> x.v # ""
      [] x.t = "arr" -> Len(x.v) > 0
      [] x.t = "obj" -> DOMAIN x.v # {}
      [] OTHER -> TRUE

\* dict(d) with d[key] = val
Put(d, key, val) == JObj((key :> val) @@ d.v)

(***************************************************************************)
(* Python strings are TLA+ strings; the operators below are the str        *)
(* methods the code uses.                                                  *)
(***************************************************************************)
Ch(s, i) == SubSeq(s, i, i)

UpperChars == "ABCDEFGHIJKLMNOPQRSTUVWXYZ"

LowerChars == "abcdefghijklmnopqrstuvwxyz"

LowerChar(c) ==
    IF \E i \in 1..Len(UpperChars) : Ch(UpperChars, i) = c
    THEN Ch(LowerChars, CHOOSE i \in 1..Len(UpperChars) : Ch(UpperChars, i) = c)
    ELSE c

RECURSIVE Lower(_)
\* s.lower()
Lower(s) == IF s = "" THEN "" ELSE LowerChar(Head(s)) \o Lower(Tail(s))

\* sub occurs in s at position i
OccursAt(s, sub, i) ==
    /\ i >= 1
    /\ i + Len(sub) - 1 <= Len(s)
    /\ SubSeq(s, i, i + Len(sub) - 1) = sub

\* `sub in s`
Contains(s, sub) == \E i \in 1..(Len(s) + 1) : OccursAt(s, sub, i)

Digits == "0123456789"

IsDigit(c) == \E d \in 1..Len(Digits) : Ch(Digits, d) = c

DigitVal(c) == (CHOOSE d \in 1..Len(Digits) : Ch(Digits, d) = c) - 1

RECURSIVE NatToStr(_)
NatToStr(n) ==
    IF n < 10 THEN Ch(Digits, n + 1)
    ELSE NatToStr(n \div 10) \o Ch(Digits, (n % 10) + 1)

\* str(n) for an int n
IntToStr(n) == IF n < 0 THEN "-" \o NatToStr(0 - n) ELSE NatToStr(n)

(***************************************************************************)
(* JSON text: json.dumps writes a value as a string (with the default      *)
(* ", " and ": " separators), json.loads lexes and parses a string and     *)
(* raises on anything that is not one JSON document.  Numbers are integers *)
(* or decimals of the form digits.digits; of the string escapes, \", \\,   *)
(* \n and \t are modelled.                                                 *)
(***************************************************************************)
Tok(kind) == [k |-> kind, s |-> "", n |-> 0]

TokStr(str) == [k |-> "str", s |-> str, n |-> 0]

TokNum(num) == [k |-> "num", s |-> "", n |-> num]

TokFloat(text) == [k |-> "float", s |-> text, n |-> 0]

Quote == "\""

Backslash == "\\"

\* the characters json.dumps writes with a backslash, and what follows it
Escaped == (Quote :> Quote) @@ (Backslash :> Backslash) @@ ("\n" :> "n") @@ ("\t" :> "t")

\* the character an escape letter stands for
Unescaped == (Quote :> Quote) @@ (Backslash :> Backslash) @@ ("n" :> "\n") @@ ("t" :> "\t")

\* the body written as it is, nothing escaped
Escape_Raw(s) == s

RECURSIVE Escape(_)
\* the body of a JSON string literal for s
Escape(s) ==
    IF s = "" THEN ""
    ELSE IF Len(s) = 1 THEN (IF s \in DOMAIN Escaped THEN Backslash \o Escaped[s] ELSE s)
    ELSE Escape(SubSeq(s, 1, Len(s) \div 2)) \o Escape(SubSeq(s, (Len(s) \div 2) + 1, Len(s)))

RECURSIVE ScanStr(_, _, _)
\* the string literal whose body starts at i: its value and the place after
\* the closing quote
ScanStr(s, i, acc) ==
    IF i > Len(s) THEN [ok |-> FALSE, str |-> "", next |-> 0]
    ELSE IF Ch(s, i) = Quote THEN [ok |-> TRUE, str |-> acc, next |-> i + 1]
    ELSE IF Ch(s, i) = Backslash
         THEN IF i + 1 <= Len(s) /\ Ch(s, i + 1) \in DOMAIN Unescaped
              THEN ScanStr(s, i + 2, acc \o Unescaped[Ch(s, i + 1)])
              ELSE [ok |-> FALSE, str |-> "", next |-> 0]
    ELSE IF Ch(s, i) \in {"\n", "\t"} THEN [ok |-> FALSE, str |-> "", next |-> 0]
    ELSE ScanStr(s, i + 1, acc \o Ch(s, i))

RECURSIVE ScanNat(_, _, _)
\* the digits starting at i: their value and the place after them
ScanNat(s, i, acc) ==
    IF i <= Len(s) /\ IsDigit(Ch(s, i)) THEN ScanNat(s, i + 1, 10 * acc + DigitVal(Ch(s, i)))
    ELSE [val |-> acc, next |-> i]

RECURSIVE StripZeros(_)
\* a decimal's text without the trailing zeros of its fraction: "0.50" is 0.5
StripZeros(text) ==
    IF Ch(text, Len(text)) = "0" /\ Ch(text, Len(text) - 1) # "."
    THEN StripZeros(SubSeq(text, 1, Len(text) - 1))
    ELSE text

\* the number literal whose digits start at i (sign is "" or "-"): its token
\* and the place after it; a leading zero before another digit is no number
ScanNumber(s, i, sign) ==
    LET int == ScanNat(s, i, 0) IN
    IF Ch(s, i) = "0" /\ int.next > i + 1 THEN [ok |-> FALSE, tok |-> Tok(""), next |-> 0]
    ELSE IF int.next + 1 <= Len(s) /\ Ch(s, int.next) = "." /\ IsDigit(Ch(s, int.next + 1))
    THEN LET frac == ScanNat(s, int.next + 1, 0) IN
         [ok |-> TRUE,
          tok |-> TokFloat(sign \o StripZeros(SubSeq(s, i, frac.next - 1))),
          next |-> frac.next]
    ELSE [ok |-> TRUE,
          tok |-> TokNum(IF sign = "-" THEN 0 - int.val ELSE int.val),
          next |-> int.next]

IsJsonSpace(c) == c \in {" ", "\n", "\t"}

\* the place of the first character at or after i that is no white space;
\* Len(s) + 1 when there is none
SkipSpace(s, i) ==
    CHOOSE j \in i..(Len(s) + 1) :
        /\ j = Len(s) + 1 \/ ~IsJsonSpace(Ch(s, j))
        /\ \A k \in i..(j - 1) : IsJsonSpace(Ch(s, k))

NoToken == [ok |-> FALSE, tok |-> Tok(""), next |-> 0]

Token(tok, next) == [ok |-> TRUE, tok |-> tok, next |-> next]

\* the token that starts at i, a place that holds no white space
LexOne(s, i) ==
    LET c == Ch(s, i) IN
    CASE c \in {"{", "}", "[", "]", ":", ","} -> Token(Tok(c), i + 1)
      [] c = Quote ->
            (LET r == ScanStr(s, i + 1, "") IN
             IF r.ok THEN Token(TokStr(r.str), r.next) ELSE NoToken)
      [] IsDigit(c) -> ScanNumber(s, i, "")
      [] c = "-" /\ i + 1 <= Len(s) /\ IsDigit(Ch(s, i + 1)) -> ScanNumber(s, i + 1, "-")
      [] c = "n" /\ OccursAt(s, "null", i) -> Token(Tok("null"), i + 4)
      [] c = "t" /\ OccursAt(s, "true", i) -> Token(Tok("true"), i + 4)
      [] c = "f" /\ OccursAt(s, "false", i) -> Token(Tok("false"), i + 5)
      [] OTHER -> NoToken

LexFail == [ok |-> FALSE, toks |-> <<>>, next |-> 0]

\* the tokens lexed in one stretch
LexStretch == 12

RECURSIVE LexSome(_, _, _, _)
\* at most n tokens from i on, appended to acc
LexSome(s, i, acc, n) ==
    LET j == SkipSpace(s, i) IN
    IF j > Len(s) \/ n = 0 THEN [ok |-> TRUE, toks |-> acc, next |-> j]
    ELSE LET r == LexOne(s, j) IN
         IF r.ok THEN LexSome(s, r.next, Append(acc, r.tok), n - 1) ELSE LexFail

RECURSIVE LexFrom(_, _, _)
RECURSIVE LexMore(_, _)
\* the tokens of s from i on, appended to acc, stretch by stretch
LexFrom(s, i, acc) == LexMore(s, LexSome(s, i, acc, LexStretch))

LexMore(s, r) == IF ~r.ok \/ r.next > Len(s) THEN r ELSE LexFrom(s, r.next, r.toks)

RECURSIVE KeySeq(_)
\* the keys of a dict in the order json.dumps writes them
KeySeq(S) ==
    IF S = {} THEN <<>>
    ELSE LET key == CHOOSE x \in S : TRUE IN <<key>> \o KeySeq(S \ {key})

RECURSIVE JsonDumps(_)
RECURSIVE DumpElems(_, _)
RECURSIVE DumpMembers(_, _, _)
\* json.dumps(x)
JsonDumps(x) ==
    CASE x.t = "null" -> "null"
      [] x.t = "bool" -> (IF x.v THEN "true" ELSE "false")
      [] x.t = "num" -> IntToStr(x.v)
      [] x.t = "float" -> x.v
      [] x.t = "str" -> Quote \o Escape(x.v) \o Quote
      [] x.t = "arr" -> "[" \o DumpElems(x.v, 1) \o "]"
      [] x.t = "obj" -> "{" \o DumpMembers(x.v, KeySeq(DOMAIN x.v), 1) \o "}"

DumpElems(q, i) ==
    IF i > Len(q) THEN ""
    ELSE (IF i > 1 THEN ", " ELSE "") \o JsonDumps(q[i]) \o DumpElems(q, i + 1)

DumpMembers(f, keys, i) ==
    IF i > Len(keys) THEN ""
    ELSE (IF i > 1 THEN ", " ELSE "")
         \o Quote \o Escape(keys[i]) \o Quote \o ": " \o JsonDumps(f[keys[i]])
         \o DumpMembers(f, keys, i + 1)

\* len() of the body of the JSON string literal for s
EscapedLen(s) == Len(s) + Cardinality({i \in 1..Len(s) : Ch(s, i) \in DOMAIN Escaped})

RECURSIVE DumpsLen(_)
RECURSIVE ElemsLen(_, _)
RECURSIVE MembersLen(_, _, _)
\* len(json.dumps(x)), counted without writing the text
DumpsLen(x) ==
    CASE x.t = "null" -> 4
      [] x.t = "bool" -> (IF x.v THEN 4 ELSE 5)
      [] x.t = "num" -> Len(IntToStr(x.v))
      [] x.t = "float" -> Len(x.v)
      [] x.t = "str" -> EscapedLen(x.v) + 2
      [] x.t = "arr" -> 2 + ElemsLen(x.v, 1)
      [] x.t = "obj" -> 2 + MembersLen(x.v, KeySeq(DOMAIN x.v), 1)

ElemsLen(q, i) ==
    IF i > Len(q) THEN 0
    ELSE (IF i > 1 THEN 2 ELSE 0) + DumpsLen(q[i]) + ElemsLen(q, i + 1)

MembersLen(f, keys, i) ==
    IF i > Len(keys) THEN 0
    ELSE (IF i > 1 THEN 2 ELSE 0) + EscapedLen(keys[i]) + 4 + DumpsLen(f[keys[i]])
         + MembersLen(f, keys, i + 1)

ParseFail == [ok |-> FALSE, val |-> JNull, next |-> 0]

ParseOk(val, next) == [ok |-> TRUE, val |-> val, next |-> next]

TokIs(toks, i, kind) == i <= Len(toks) /\ toks[i].k = kind

RECURSIVE ParseValue(_, _)
RECURSIVE ParseElems(_, _, _)
RECURSIVE ParseMembers(_, _, _)
\* one JSON value starting at token i
ParseValue(toks, i) ==
    IF i > Len(toks) THEN ParseFail
    ELSE CASE toks[i].k = "null" -> ParseOk(JNull, i + 1)
           [] toks[i].k = "true" -> ParseOk(JBool(TRUE), i + 1)
           [] toks[i].k = "false" -> ParseOk(JBool(FALSE), i + 1)
           [] toks[i].k = "num" -> ParseOk(JNum(toks[i].n), i + 1)
           [] toks[i].k = "float" -> ParseOk(JFloat(toks[i].s), i + 1)
           [] toks[i].k = "str" -> ParseOk(JStr(toks[i].s), i + 1)
           [] toks[i].k = "[" ->
                IF TokIs(toks, i + 1, "]") THEN ParseOk(JArr(<<>>), i + 2)
                ELSE ParseElems(toks, i + 1, <<>>)
           [] toks[i].k = "{" ->
                IF TokIs(toks, i + 1, "}") THEN ParseOk(JObj(EmptyMap), i + 2)
                ELSE ParseMembers(toks, i + 1, EmptyMap)
           [] OTHER -> ParseFail

ParseElems(toks, i, acc) ==
    LET r == ParseValue(toks, i) IN
    IF ~r.ok THEN ParseFail
    ELSE IF TokIs(toks, r.next, ",") THEN ParseElems(toks, r.next + 1, Append(acc, r.val))
    ELSE IF TokIs(toks, r.next, "]") THEN ParseOk(JArr(Append(acc, r.val)), r.next + 1)
    ELSE ParseFail

\* a duplicate key keeps its last value
ParseMembers(toks, i, acc) ==
    IF ~(TokIs(toks, i, "str") /\ TokIs(toks, i + 1, ":")) THEN ParseFail
    ELSE LET r == ParseValue(toks, i + 2) IN
         IF ~r.ok THEN ParseFail
         ELSE LET acc2 == (toks[i].s :> r.val) @@ acc IN
              IF TokIs(toks, r.next, ",") THEN ParseMembers(toks, r.next + 1, acc2)
              ELSE IF TokIs(toks, r.next, "}") THEN ParseOk(JObj(acc2), r.next + 1)
              ELSE ParseFail

\* json.loads(text): ok = FALSE stands for the JSONDecodeError it raises
JsonLoads(text) ==
    LET lx == LexFrom(text, 1, <<>>)
        r == ParseValue(lx.toks, 1)
    IN  IF lx.ok /\ r.ok /\ r.next = Len(lx.toks) + 1 THEN [ok |-> TRUE, val |-> r.val]
        ELSE [ok |-> FALSE, val |-> JNull]

(***************************************************************************)
(* parse_mcp_content_text (src/src/core/mcp_client.py)                     *)
(***************************************************************************)
\* str(x); a container is written as JSON text (Python's repr differs from it
\* in the quotes only)
PyStr(x) ==
    CASE x.t = "str" -> x.v
      [] x.t = "num" -> IntToStr(x.v)
      [] x.t = "bool" -> (IF x.v THEN "True" ELSE "False")
      [] x.t = "null" -> "None"
      [] OTHER -> JsonDumps(x)

\* `return json.loads(txt)` inside the function's try: the except returns None
LoadsOrNone(text) == LET r == JsonLoads(text) IN IF r.ok THEN r.val ELSE JNull

\* item.get("mimeType") or item.get("mime")
MimeOf(item) ==
    LET a == Get(item, "mimeType") IN IF Truthy(a) THEN a ELSE Get(item, "mime")

\* mime and "json" in str(mime).lower()
IsJsonMime(item) ==
    LET mime == MimeOf(item) IN Truthy(mime) /\ Contains(Lower(PyStr(mime)), "json")

NotFound == [found |-> FALSE, val |-> JNull]

Found(val) == [found |-> TRUE, val |-> val]

RECURSIVE ByJsonMime(_, _)
\* 1) the loop over the items with a JSON mimeType
ByJsonMime(content, i) ==
    IF i > Len(content) THEN NotFound
    ELSE LET item == content[i] IN
         IF IsDict(item) /\ IsJsonMime(item) /\ IsStr(Get(item, "text"))
         THEN Found(LoadsOrNone(Get(item, "text").v))
         ELSE ByJsonMime(content, i + 1)

RECURSIVE ByJsonField(_, _)
\* 2) the loop over the items with a 'json' field
ByJsonField(content, i) ==
    IF i > Len(content) THEN NotFound
    ELSE LET item == content[i] IN
         IF IsDict(item) /\ Has(item, "json") /\ IsDict(Get(item, "json"))
         THEN Found(Get(item, "json"))
         ELSE IF IsDict(item) /\ Has(item, "json") /\ IsStr(Get(item, "json"))
         THEN Found(LoadsOrNone(Get(item, "json").v))
         ELSE ByJsonField(content, i + 1)

\* 3) the first item's text
ByFirstText(content) ==
    LET first == content[1] IN
    IF IsDict(first) /\ IsStr(Get(first, "text")) THEN LoadsOrNone(Get(first, "text").v)
    ELSE JNull

\* parse_mcp_content_text(mcp_result) in the order 2), 1), 3)
ParseMcpContentText_FieldFirst(mcp_result) ==
    IF ~IsDict(mcp_result) THEN JNull
    ELSE LET content == GetOr(mcp_result, "content", JArr(<<>>)) IN
         IF ~IsList(content) \/ Len(content.v) = 0 THEN JNull
         ELSE IF ByJsonField(content.v, 1).found THEN ByJsonField(content.v, 1).val
         ELSE IF ByJsonMime(content.v, 1).found THEN ByJsonMime(content.v, 1).val
         ELSE ByFirstText(content.v)

\* parse_mcp_content_text(mcp_result); a result that is no dict raises inside
\* the try and so gives None
ParseMcpContentText(mcp_result) ==
    IF ~IsDict(mcp_result) THEN JNull
    ELSE LET content == GetOr(mcp_result, "content", JArr(<<>>)) IN
         IF ~IsList(content) \/ Len(content.v) = 0 THEN JNull
         ELSE IF ByJsonMime(content.v, 1).found THEN ByJsonMime(content.v, 1).val
         ELSE IF ByJsonField(content.v, 1).found THEN ByJsonField(content.v, 1).val
         ELSE ByFirstText(content.v)

(***************************************************************************)
(* MCPClient (src/src/core/mcp_client.py): _rpc and the facade methods     *)
(* list_tools, call_tool and initialize built on it.                       *)
(***************************************************************************)
\* retries = 3
Retries == 3

\* backoff = 1.5, as the fraction BackoffNum / BackoffDen
BackoffNum == 3

BackoffDen == 2

RECURSIVE Pow(_, _)
Pow(b, e) == IF e = 0 THEN 1 ELSE b * Pow(b, e - 1)

\* backoff ** attempt seconds, as a fraction
SleepSeconds_NextPower(a) == [num |-> Pow(BackoffNum, a + 1), den |-> Pow(BackoffDen, a + 1)]

SleepSeconds(a) == [num |-> Pow(BackoffNum, a), den |-> Pow(BackoffDen, a)]

\* the JSON-RPC method a facade method sends
MethodOf(op) ==
    CASE op = "list_tools" -> "tools/list"
      [] op = "call_tool" -> "tools/call"
      [] op = "initialize" -> "initialize"

\* One HTTP attempt as the tool host and the transport decide it:
\*   exception   session.post raised (connection refused, timeout)
\*   429         a response with status 429
\*   http_error  a response with another 4xx/5xx status (raise_for_status raises)
\*   bad_json    a 2xx response whose body is not JSON (resp.json() raises)
\*   json        a 2xx response whose body is the JSON value data
PostEvent(outcome, data) ==
    [kind |-> "post", outcome |-> outcome, data |-> data, num |-> 0, den |-> 1]

SleepEvent(d) == [kind |-> "sleep", outcome |-> "", data |-> JNull, num |-> d.num, den |-> d.den]

\* str(e) of the exception an attempt ends with
CauseText(outcome) ==
    CASE outcome = "exception" -> "Connection refused"
      [] outcome = "429" -> "429 Client Error: Too Many Requests"
      [] outcome = "http_error" -> "500 Server Error: Internal Server Error"
      [] outcome = "bad_json" -> "Expecting value: line 1 column 1 (char 0)"

NoOut == [kind |-> "none", type |-> "", msg |-> "", val |-> JNull]

Return(val) == [kind |-> "return", type |-> "", msg |-> "", val |-> val]

Raise(type, msg) == [kind |-> "raise", type |-> type, msg |-> msg, val |-> JNull]

\* the MCPError of the final failed attempt
RequestFailed(method, cause) ==
    Raise("MCPError",
          "MCP request failed for " \o method \o ": " \o cause \o ". "
          \o "If this is rate limiting, try again later or reduce request volume.")

\* `key in x` for a str (a substring test) or a list (an element test)
In(key, x) ==
    CASE x.t = "str" -> Contains(x.v, key)
      [] x.t = "arr" -> \E i \in 1..Len(x.v) : x.v[i] = JStr(key)
      [] x.t = "obj" -> key \in DOMAIN x.v
      [] OTHER -> FALSE

\* _rpc after its loop, on the JSON value data, when a missing result is
\* answered with an empty result
RpcResult_EmptyOnMissing(method, data) ==
    IF data.t \in {"null", "bool", "num"}
    THEN Raise("TypeError", "argument of type '" \o data.t \o "' is not iterable")
    ELSE IF IsDict(data) /\ Has(data, "error")
    THEN Raise("MCPError",
               "MCP error for " \o method \o ": " \o PyStr(Get(data, "error")) \o ". "
               \o "Check tool name/arguments and permissions.")
    ELSE IF ~(IsDict(data) /\ Has(data, "result"))
    THEN Return(JObj(EmptyMap))
    ELSE Return(Get(data, "result"))

\* _rpc after its loop, on the JSON value data: `"error" in data`,
\* `"result" not in data`, `return data["result"]`.  A body that is null, a
\* boolean or a number makes the `in` test raise TypeError; so does indexing a
\* string or a list that contains the key.
RpcResult(method, data) ==
    IF data.t \in {"null", "bool", "num"}
    THEN Raise("TypeError", "argument of type '" \o data.t \o "' is not iterable")
    ELSE IF ~IsDict(data) /\ (In("error", data) \/ In("result", data))
    THEN Raise("TypeError", "indices must be integers")
    ELSE IF IsDict(data) /\ Has(data, "error")
    THEN Raise("MCPError",
               "MCP error for " \o method \o ": " \o PyStr(Get(data, "error")) \o ". "
               \o "Check tool name/arguments and permissions.")
    ELSE IF ~(IsDict(data) /\ Has(data, "result"))
    THEN Raise("MCPError", "MCP invalid response for " \o method \o ": missing result")
    ELSE Return(Get(data, "result"))

NotADict == Raise("AttributeError", "object has no attribute 'get'")

\* list_tools after _rpc returned result
ListToolsResult(result) ==
    IF ~IsDict(result) THEN NotADict ELSE Return(GetOr(result, "tools", JArr(<<>>)))

\* call_tool's message for a result that reports an error: the first content
\* block's text, else its error
ToolErrorMessage(result) ==
    LET content == GetOr(result, "content", JArr(<<>>)) IN
    IF IsList(content) /\ Len(content.v) > 0 /\ IsDict(content.v[1])
    THEN LET first == content.v[1] IN
         IF Truthy(Get(first, "text")) THEN Get(first, "text") ELSE Get(first, "error")
    ELSE JNull

\* call_tool after _rpc returned result, when a reported error is raised
CallToolResult_Raising(name, result) ==
    IF ~IsDict(result) THEN Return(result)
    ELSE IF Truthy(Get(result, "isError"))
    THEN Raise("MCPError", "Tool '" \o name \o "' error")
    ELSE Return(result)

\* call_tool after _rpc returned result; result.get on a result that is no dict
\* raises inside the try, whose except passes
CallToolResult(name, result) ==
    IF ~IsDict(result) THEN Return(result)
    ELSE IF Truthy(Get(result, "isError"))
    THEN LET msg == ToolErrorMessage(result) IN
         IF Truthy(msg)
         THEN Return(Put(result, "error", JStr("Tool '" \o name \o "' error: " \o PyStr(msg))))
         ELSE Return(Put(result, "error",
                         JStr("Tool '" \o name
                              \o "' reported an error. Check arguments/permissions.")))
    ELSE Return(result)

\* initialize after _rpc returned result
InitializeResult(result) == IF ~IsDict(result) THEN NotADict ELSE Return(result)

\* what the facade method op gives its caller once _rpc has the JSON value data
FacadeResult(op, name, data) ==
    LET r == RpcResult(MethodOf(op), data) IN
    IF r.kind = "raise" THEN r
    ELSE CASE op = "list_tools" -> ListToolsResult(r.val)
           [] op = "call_tool" -> CallToolResult(name, r.val)
           [] op = "initialize" -> InitializeResult(r.val)

(***************************************************************************)
(* SpecRpc: logical calls of one MCPClient against a tool host that        *)
(* answers each HTTP request as it likes.                                  *)
(***************************************************************************)
ToolNames == {"platform_core_search", "platform_core_get_document_by_id"}

TextBlock(text) == JObj(("type" :> JStr("text")) @@ ("text" :> JStr(text)))

IsError == "isError" :> JBool(TRUE)

\* the `result` objects of tools/call
CallResults ==
    { JObj("content" :> JArr(<<TextBlock("{\"results\": []}")>>)),
      JObj(("isError" :> JBool(FALSE)) @@ ("content" :> JArr(<<TextBlock("ok")>>))),
      JObj(("content" :> JArr(<<TextBlock("ok")>>)) @@ ("error" :> JStr("set by host"))),
      JObj("content" :> JArr(<<>>)),
      JObj(EmptyMap),
      JObj(IsError @@ ("content" :> JArr(<<TextBlock("index not found")>>))),
      JObj(IsError @@ ("content" :> JArr(<<JObj("error" :> JStr("bad argument"))>>))),
      JObj(IsError @@ ("content" :> JArr(<<JObj(("text" :> JStr(""))
                                              @@ ("error" :> JStr("denied"))),
                                         TextBlock("second")>>))),
      JObj(IsError @@ ("content" :> JArr(<<JObj("type" :> JStr("image")),
                                         TextBlock("second")>>))),
      JObj(IsError @@ ("content" :> JArr(<<JStr("raw")>>))),
      JObj(IsError @@ ("content" :> JArr(<<>>))),
      JObj(IsError @@ ("content" :> JStr("failed"))),
      JObj(IsError),
      JObj(IsError @@ ("content" :> JArr(<<TextBlock("boom")>>))
           @@ ("error" :> JStr("set by host"))),
      JArr(<<>>) }

\* the `result` objects of tools/list
ListResults ==
    { JObj("tools" :> JArr(<<JObj("name" :> JStr("platform_core_search"))>>)),
      JObj(EmptyMap),
      JNull }

\* the `result` objects of initialize
InitResults ==
    { JObj(("serverInfo" :> JObj("name" :> JStr("elastic")))
           @@ ("capabilities" :> JObj(EmptyMap))),
      JObj(EmptyMap) }

ResultsOf(op) ==
    CASE op = "list_tools" -> ListResults
      [] op = "call_tool" -> CallResults
      [] op = "initialize" -> InitResults

RpcErrorObject == JObj(("code" :> JNum(-32601)) @@ ("message" :> JStr("Method not found")))

Envelope == ("jsonrpc" :> JStr("2.0")) @@ ("id" :> JNum(1))

\* the JSON bodies the tool host answers a request of op with
BodiesOf(op) ==
    {JObj(Envelope @@ ("result" :> r)) : r \in ResultsOf(op)}
    \cup {JObj(Envelope @@ ("error" :> RpcErrorObject) @@ ("result" :> r)) : r \in ResultsOf(op)}
    \cup { JObj(Envelope @@ ("error" :> RpcErrorObject)),
           JObj(Envelope @@ ("error" :> JNull)),
           JObj(Envelope),
           JObj(EmptyMap),
           JArr(<<>>),
           JStr("upstream error"),
           JNull }

FailedOutcomes == {"exception", "429", "http_error", "bad_json"}

NoSession == [server_info |-> JNull, capabilities |-> JNull]

RpcIdle ==
    /\ rpcPc = "idle"
    /\ rpcOp = ""
    /\ rpcTool = ""
    /\ attempt = 0
    /\ rpcEvents = <<>>
    /\ rpcOut = NoOut
    /\ rpcSession = NoSession

\* a caller enters list_tools(), call_tool(name, ...) or initialize(): _rpc
\* builds the payload and enters its loop
RpcCall ==
    /\ rpcPc \in {"idle", "returned", "raised"}
    /\ \E op \in {"list_tools", "call_tool", "initialize"} :
          /\ rpcOp' = op
          /\ rpcTool' \in (IF op = "call_tool" THEN ToolNames ELSE {""})
    /\ rpcPc' = "request"
    /\ attempt' = 0
    /\ rpcEvents' = <<>>
    /\ rpcOut' = NoOut
    /\ UNCHANGED rpcSession

\* the except branch and the 429 branch: sleep and go round again
RpcBackOff(outcome) ==
    /\ attempt < Retries - 1
    /\ rpcEvents' = rpcEvents \o <<PostEvent(outcome, JNull), SleepEvent(SleepSeconds(attempt))>>
    /\ attempt' = attempt + 1
    /\ UNCHANGED <<rpcPc, rpcOp, rpcTool, rpcOut, rpcSession>>

\* the except branch of the last attempt; a 429 of the last attempt gets there
\* through raise_for_status
RpcGiveUp(outcome) ==
    /\ ~(attempt < Retries - 1)
    /\ rpcEvents' = Append(rpcEvents, PostEvent(outcome, JNull))
    /\ rpcPc' = "raised"
    /\ rpcOut' = RequestFailed(MethodOf(rpcOp), CauseText(outcome))
    /\ UNCHANGED <<rpcOp, rpcTool, attempt, rpcSession>>

\* a 2xx response with a JSON body, when an envelope with an `error` field is
\* retried like a failed attempt
RpcAnswer_RetryOnError(data) ==
    LET out == FacadeResult(rpcOp, rpcTool, data) IN
    IF IsDict(data) /\ Has(data, "error") /\ attempt < Retries - 1
    THEN /\ rpcEvents' = rpcEvents \o <<PostEvent("json", data), SleepEvent(SleepSeconds(attempt))>>
         /\ attempt' = attempt + 1
         /\ UNCHANGED <<rpcPc, rpcOp, rpcTool, rpcOut, rpcSession>>
    ELSE /\ rpcEvents' = Append(rpcEvents, PostEvent("json", data))
         /\ rpcOut' = out
         /\ rpcPc' = IF out.kind = "return" THEN "returned" ELSE "raised"
         /\ rpcSession' = IF rpcOp = "initialize" /\ out.kind = "return"
                          THEN [server_info |-> Get(out.val, "serverInfo"),
                                capabilities |-> Get(out.val, "capabilities")]
                          ELSE rpcSession
         /\ UNCHANGED <<rpcOp, rpcTool, attempt>>

\* a 2xx response with a JSON body: the loop breaks, _rpc checks the envelope
\* and the facade method finishes
RpcAnswer(data) ==
    LET out == FacadeResult(rpcOp, rpcTool, data) IN
    /\ rpcEvents' = Append(rpcEvents, PostEvent("json", data))
    /\ rpcOut' = out
    /\ rpcPc' = IF out.kind = "return" THEN "returned" ELSE "raised"
    /\ rpcSession' = IF rpcOp = "initialize" /\ out.kind = "return"
                     THEN [server_info |-> Get(out.val, "serverInfo"),
                           capabilities |-> Get(out.val, "capabilities")]
                     ELSE rpcSession
    /\ UNCHANGED <<rpcOp, rpcTool, attempt>>

\* one iteration of _rpc's loop: one HTTP request and what follows it
RpcPost ==
    /\ rpcPc = "request"
    /\ \/ \E outcome \in FailedOutcomes : RpcBackOff(outcome)
       \/ \E outcome \in FailedOutcomes : RpcGiveUp(outcome)
       \/ \E data \in BodiesOf(rpcOp) : RpcAnswer(data)

(***************************************************************************)
(* Claims about the retry policy and the error surfacing (SpecRpc)         *)
(***************************************************************************)
IsPost(e) == e.kind = "post"

IsSleep(e) == e.kind = "sleep"

\* the number of HTTP requests among the first n events of the logical call
PostsUpTo(n) == Cardinality({i \in 1..n : IsPost(rpcEvents[i])})

NumPosts == PostsUpTo(Len(rpcEvents))

RpcDone == rpcPc \in {"returned", "raised"}

\* event i is a 2xx response carrying a JSON-RPC envelope (a JSON object)
IsEnvelopeAt(i) ==
    /\ IsPost(rpcEvents[i])
    /\ rpcEvents[i].outcome = "json"
    /\ IsDict(rpcEvents[i].data)

\* C1: a logical call sends at most 3 HTTP requests; a further request is sent
\* only after an attempt that returned 429 or raised, and only after a sleep of
\* 1.5^attempt seconds (1, then 1.5); no sleep follows the third attempt; a
\* failed third attempt ends the call with an MCPError naming the method and
\* the cause.
C1_RetryPolicy ==
    /\ NumPosts <= 3
    /\ \A i \in 1..Len(rpcEvents) :
          (IsPost(rpcEvents[i]) /\ i > 1) =>
              /\ i >= 3
              /\ IsSleep(rpcEvents[i - 1])
              /\ IsPost(rpcEvents[i - 2])
              /\ rpcEvents[i - 2].outcome \in {"429", "exception", "http_error", "bad_json"}
    /\ \A i \in 1..Len(rpcEvents) :
          IsSleep(rpcEvents[i]) =>
              /\ i > 1 /\ IsPost(rpcEvents[i - 1])
              /\ PostsUpTo(i) < 3
              /\ PostsUpTo(i) = 1 => rpcEvents[i].num = rpcEvents[i].den
              /\ PostsUpTo(i) = 2 => 2 * rpcEvents[i].num = 3 * rpcEvents[i].den
    /\ (NumPosts = 3 /\ rpcEvents[Len(rpcEvents)].outcome # "json") =>
          /\ rpcPc = "raised"
          /\ rpcOut.kind = "raise"
          /\ rpcOut.type = "MCPError"
          /\ Contains(rpcOut.msg, MethodOf(rpcOp))
          /\ Contains(rpcOut.msg, CauseText(rpcEvents[Len(rpcEvents)].outcome))

\* C1 witness: three requests, the last answered 429, two sleeps, MCPError.
C1_Witness ==
    /\ rpcPc = "raised"
    /\ Len(rpcEvents) = 5
    /\ NumPosts = 3
    /\ rpcEvents[5].outcome = "429"
    /\ rpcOut.type = "MCPError"

\* the logical call ended on event i, an envelope without a `result` field
NoResultEnvelopeAt(i) == IsEnvelopeAt(i) /\ ~Has(rpcEvents[i].data, "result")

\* C2 as stated: an envelope without `result` makes list_tools/call_tool raise
\* a tool-host error after exhausting the retries, never returning a value.
C2_RaisesAfterRetries ==
    \A i \in 1..Len(rpcEvents) :
        (rpcOp \in {"list_tools", "call_tool"} /\ NoResultEnvelopeAt(i)) =>
            (RpcDone => /\ rpcOut.kind = "raise"
                        /\ rpcOut.type = "MCPError"
                        /\ NumPosts = Retries)

\* C2 amended: an envelope without `result` makes list_tools/call_tool raise a
\* tool-host error at once, on that response: it is the last request of the
\* call, no sleep follows it, and no value is returned.
C2_RaisesAtOnce ==
    \A i \in 1..Len(rpcEvents) :
        (rpcOp \in {"list_tools", "call_tool"} /\ NoResultEnvelopeAt(i)) =>
            /\ i = Len(rpcEvents)
            /\ rpcPc = "raised"
            /\ rpcOut.kind = "raise"
            /\ rpcOut.type = "MCPError"
            /\ rpcOut.val = JNull

\* C2 witness: call_tool raised on its first response, an envelope with
\* neither `result` nor `error`.
C2_Witness ==
    /\ rpcOp = "call_tool"
    /\ rpcPc = "raised"
    /\ Len(rpcEvents) = 1
    /\ NoResultEnvelopeAt(1)
    /\ ~Has(rpcEvents[1].data, "error")
    /\ rpcOut.msg = "MCP invalid response for tools/call: missing result"

\* C3: an envelope with a top-level `error` field ends the logical call at
\* once with an MCPError: no request and no sleep follows that response.
C3_ErrorEnvelopeRaisesAtOnce ==
    \A i \in 1..Len(rpcEvents) :
        (IsEnvelopeAt(i) /\ Has(rpcEvents[i].data, "error")) =>
            /\ i = Len(rpcEvents)
            /\ rpcPc = "raised"
            /\ rpcOut.kind = "raise"
            /\ rpcOut.type = "MCPError"
            /\ Contains(rpcOut.msg, "MCP error for " \o MethodOf(rpcOp))

\* C3 witness: the second attempt (after a failed first one and its sleep)
\* brought an error envelope and the call raised.
C3_Witness ==
    /\ rpcPc = "raised"
    /\ Len(rpcEvents) = 3
    /\ IsEnvelopeAt(3)
    /\ Has(rpcEvents[3].data, "error")
    /\ Has(rpcEvents[3].data, "result")

\* the tools/call result the call ended on: the envelope has a result object
\* and no error
ToolResultAtEnd ==
    /\ rpcOp = "call_tool"
    /\ RpcDone
    /\ IsEnvelopeAt(Len(rpcEvents))
    /\ ~Has(rpcEvents[Len(rpcEvents)].data, "error")
    /\ Has(rpcEvents[Len(rpcEvents)].data, "result")
    /\ IsDict(rpcEvents[Len(rpcEvents)].data.v["result"])

LastResult == rpcEvents[Len(rpcEvents)].data.v["result"]

\* the first content block's text, or else its `error` field, when there is one
UsableErrorText(result) ==
    LET content == GetOr(result, "content", JArr(<<>>))
        blocks == IF IsList(content) THEN content.v ELSE <<>>
    IN  IF Len(blocks) = 0 \/ ~IsDict(blocks[1]) THEN ""
        ELSE IF Has(blocks[1], "text") /\ Get(blocks[1], "text") # JStr("")
             THEN Get(blocks[1], "text").v
        ELSE IF Has(blocks[1], "error") THEN Get(blocks[1], "error").v
        ELSE ""

\* C4: a tools/call result with a true isError flag is returned, not raised,
\* with `error` set to the message built from the first content block's text
\* (or its `error` field), or to the generic message when there is none; a
\* result without isError is returned as it came.
C4_ToolErrorFolded ==
    ToolResultAtEnd =>
        /\ rpcPc = "returned"
        /\ rpcOut.kind = "return"
        /\ IF Get(LastResult, "isError") = JBool(TRUE)
           THEN rpcOut.val =
                  Put(LastResult, "error",
                      JStr(IF UsableErrorText(LastResult) # ""
                           THEN "Tool '" \o rpcTool \o "' error: " \o UsableErrorText(LastResult)
                           ELSE "Tool '" \o rpcTool
                                \o "' reported an error. Check arguments/permissions."))
           ELSE rpcOut.val = LastResult

\* C4 witness: call_tool returned a result whose error message comes from the
\* first block's `error` field.
C4_Witness ==
    /\ ToolResultAtEnd
    /\ rpcPc = "returned"
    /\ Get(LastResult, "isError") = JBool(TRUE)
    /\ Get(rpcOut.val, "error") = JStr("Tool 'platform_core_search' error: denied")

\* C23: every value call_tool returns that has no `error` field and has a
\* `content` field has a non-empty content sequence.
C23_ContentNeverEmpty ==
    (/\ rpcPc = "returned" /\ rpcOp = "call_tool"
     /\ IsDict(rpcOut.val)
     /\ ~Has(rpcOut.val, "error") /\ Has(rpcOut.val, "content")) =>
        /\ IsList(Get(rpcOut.val, "content"))
        /\ Len(Get(rpcOut.val, "content").v) > 0

(***************************************************************************)
(* SpecParse: parse_mcp_content_text applied to bounded tool results.      *)
(***************************************************************************)
MaxBlocks == 2

JsonMimeType == "mimeType" :> JStr("application/json")

\* the content blocks a tool host sends, and items that are no blocks
Blocks ==
    { JObj(("type" :> JStr("text")) @@ ("text" :> JStr("{\"src\": \"text\"}"))),
      JObj(("type" :> JStr("text")) @@ ("text" :> JStr("no results"))),
      JObj(("text" :> JStr("null"))),
      JObj(JsonMimeType @@ ("text" :> JStr("{\"src\": \"mime\"}"))),
      JObj(JsonMimeType @@ ("text" :> JStr("{\"src\": "))),
      JObj(JsonMimeType @@ ("text" :> JNum(7))),
      JObj(JsonMimeType),
      JObj(("mime" :> JStr("Application/JSON")) @@ ("text" :> JStr("{\"src\": \"mime2\"}"))),
      JObj(("mimeType" :> JStr("")) @@ ("mime" :> JStr("text/json"))
           @@ ("text" :> JStr("[1, 2]"))),
      JObj(("mimeType" :> JStr("text/plain")) @@ ("text" :> JStr("{\"src\": \"plain\"}"))),
      JObj(("json" :> JObj("src" :> JStr("field")))),
      JObj(("json" :> JStr("{\"src\": \"fieldstr\"}"))),
      JObj(("json" :> JStr("oops"))),
      JObj(("json" :> JNum(1))),
      JStr("raw") }

Contents == UNION {[1..n -> Blocks] : n \in 0..MaxBlocks}

\* the values and the mappings that are serialized into a JSON-mimetype block
Scalars ==
    { JNull, JBool(TRUE), JNum(-3), JFloat("1.5"), JStr(""),
      JStr("say \"hi\" \\ twice\n\tdone") }

MappingValues ==
    Scalars
    \cup { JArr(<<>>), JArr(<<JNum(0), JStr("a, b")>>), JObj(EmptyMap),
           JObj("results" :> JArr(<<JObj("data" :> JObj("id" :> JStr("DOC1")))>>)) }

MappingKeys == {"results", "a \"key\""}

Mappings == UNION {{JObj(f) : f \in [K -> MappingValues]} : K \in SUBSET MappingKeys}

\* the tool result whose content is one JSON-mimetype block with text
JsonResult(text) ==
    JObj("content" :> JArr(<<JObj(JsonMimeType @@ ("type" :> JStr("text"))
                                  @@ ("text" :> JStr(text)))>>))

\* each mapping's tool result: its text is json.dumps(m)
SerializedResult == [m \in Mappings |-> JsonResult(JsonDumps(m))]

ParseInputs ==
    {JObj("content" :> JArr(c)) : c \in Contents}
    \cup { JObj(EmptyMap), JObj("content" :> JStr("text")), JObj("content" :> JNull),
           JArr(<<>>) }
    \cup {SerializedResult[m] : m \in Mappings}

ParseIdle == pResult = JNull /\ pDone = FALSE /\ pOut = JNull

\* the call parse_mcp_content_text(pResult)
Parse ==
    /\ ~pDone
    /\ pDone' = TRUE
    /\ pOut' = ParseMcpContentText(pResult)
    /\ UNCHANGED pResult

(***************************************************************************)
(* Claims about parse_mcp_content_text (SpecParse)                         *)
(***************************************************************************)
Min(S) == CHOOSE x \in S : \A y \in S : x <= y

NoJson == [ok |-> FALSE, val |-> JNull]

\* the content list of a tool result (empty when it has none)
ContentOf(r) ==
    IF IsDict(r) /\ IsList(GetOr(r, "content", JArr(<<>>)))
    THEN GetOr(r, "content", JArr(<<>>)).v
    ELSE <<>>

\* source 1 applies to an item: a block with a JSON MIME tag and a text
MimeApplies(item) == IsDict(item) /\ IsJsonMime(item) /\ IsStr(Get(item, "text"))

\* source 2 applies to an item: a block whose `json` field is a mapping or a string
FieldApplies(item) ==
    IsDict(item) /\ Has(item, "json") /\ Get(item, "json").t \in {"obj", "str"}

\* source 3 applies to an item: a block with a text
TextApplies(item) == IsDict(item) /\ IsStr(Get(item, "text"))

\* what each source yields for an item: ok says that it is valid JSON
MimeYield(item) == IF MimeApplies(item) THEN JsonLoads(Get(item, "text").v) ELSE NoJson

FieldYield(item) ==
    IF ~FieldApplies(item) THEN NoJson
    ELSE IF IsDict(Get(item, "json")) THEN [ok |-> TRUE, val |-> Get(item, "json")]
    ELSE JsonLoads(Get(item, "json").v)

TextYield(item) == IF TextApplies(item) THEN JsonLoads(Get(item, "text").v) ELSE NoJson

ValueOf(yield) == IF yield.ok THEN yield.val ELSE JNull

\* the payload of the highest-preference source that yields valid JSON
HighestValidPayload(content) ==
    LET M == {i \in 1..Len(content) : MimeYield(content[i]).ok}
        F == {i \in 1..Len(content) : FieldYield(content[i]).ok}
    IN  IF M # {} THEN MimeYield(content[Min(M)]).val
        ELSE IF F # {} THEN FieldYield(content[Min(F)]).val
        ELSE IF Len(content) > 0 THEN ValueOf(TextYield(content[1]))
        ELSE JNull

\* the payload of the first source that applies, valid or not
FirstApplicablePayload(content) ==
    LET M == {i \in 1..Len(content) : MimeApplies(content[i])}
        F == {i \in 1..Len(content) : FieldApplies(content[i])}
    IN  IF M # {} THEN ValueOf(MimeYield(content[Min(M)]))
        ELSE IF F # {} THEN ValueOf(FieldYield(content[Min(F)]))
        ELSE IF Len(content) > 0 THEN ValueOf(TextYield(content[1]))
        ELSE JNull

\* C10 as stated: parse_mcp_content_text returns the payload of the
\* highest-preference source (JSON-MIME block, `json` field, first block's
\* text) that yields valid JSON, and None only when no source yields valid
\* JSON: an invalid JSON-MIME text does not hide a later source.
C10_HighestValidSource == pDone => pOut = HighestValidPayload(ContentOf(pResult))

\* C10 amended: parse_mcp_content_text returns the payload of the first source
\* that applies (the first JSON-MIME block with a text, else the first block
\* whose `json` field is a mapping or a string, else the first block's text),
\* and None when that source is not valid JSON or when no source applies; it
\* never goes on to a lower-preference source.
C10_FirstApplicableSource == pDone => pOut = FirstApplicablePayload(ContentOf(pResult))

\* C10 witness: a JSON-MIME block with invalid text precedes a block whose
\* `json` field is a mapping, and the call returned None.
C10_Witness ==
    /\ pDone
    /\ pOut = JNull
    /\ \E i, j \in 1..Len(ContentOf(pResult)) :
          /\ i < j
          /\ MimeApplies(ContentOf(pResult)[i])
          /\ ~MimeYield(ContentOf(pResult)[i]).ok
          /\ FieldYield(ContentOf(pResult)[j]).ok
          /\ FieldYield(ContentOf(pResult)[j]).val # JNull

\* C11: round trip.  For every mapping m, parse_mcp_content_text applied to
\* the tool result whose content is a single JSON-mimetype block with text =
\* json.dumps(m) returns exactly m.
C11_RoundTrip ==
    \A m \in Mappings : (pDone /\ pResult = SerializedResult[m]) => pOut = m

\* C11's case: a mapping with a nested list of hits and a string that needs
\* escaping went through json.dumps and came back from the call
C11_Witness ==
    \E m \in Mappings :
        /\ pDone /\ pResult = SerializedResult[m] /\ pOut = m
        /\ DOMAIN m.v = MappingKeys
        /\ m.v["results"].t = "obj"
        /\ m.v["a \"key\""] = JStr("say \"hi\" \\ twice\n\tdone")

(***************************************************************************)
(* The rule-based intent classifier (src/src/groceries/service.py).        *)
(* Confidences are in hundredths: 0.6 + max_len / 20 is 60 + 5 * max_len,  *)
(* which orders and equates the values exactly as the floats do.           *)
(***************************************************************************)
\* Regular expressions, as far as the rule table uses them: a pattern is a
\* sequence of elements
\*   alt     one of the literal strings alts            (a|b|c)
\*   sp      one or more white-space characters         \s+
\*   optsp   optionally one of alts, then white space   (a\s+)?
\*   any     any characters but a newline               (.*)
\*   id      one or more of [a-zA-Z0-9_-]               ([a-zA-Z0-9_-]+)
Alt(alts) == [k |-> "alt", alts |-> alts]

Sp == [k |-> "sp", alts |-> {}]

OptSp(alts) == [k |-> "optsp", alts |-> alts]

AnyChars == [k |-> "any", alts |-> {}]

Id == [k |-> "id", alts |-> {}]

IsSpace(c) == c \in {" ", "\t", "\n"}

IsIdChar(c) == \/ LowerChar(c) # c
               \/ \E i \in 1..Len(LowerChars) : Ch(LowerChars, i) = c
               \/ IsDigit(c)
               \/ c \in {"_", "-"}

\* the places after a run of one or more white-space characters that starts at i
SpaceRunEnds(q, i) ==
    {e \in (i + 1)..(Len(q) + 1) : \A j \in i..(e - 1) : IsSpace(Ch(q, j))}

\* the places after a run of one or more of [a-zA-Z0-9_-] that starts at i
IdRunEnds(q, i) ==
    {e \in (i + 1)..(Len(q) + 1) : \A j \in i..(e - 1) : IsIdChar(Ch(q, j))}

AltEnds(q, i, alts) == {i + Len(a) : a \in {b \in alts : OccursAt(q, b, i)}}

\* the places where a match of element el that starts at i can end
ElemEnds(q, i, el) ==
    CASE el.k = "alt" -> AltEnds(q, i, el.alts)
      [] el.k = "sp" -> SpaceRunEnds(q, i)
      [] el.k = "optsp" ->
           {i} \cup UNION {SpaceRunEnds(q, e) : e \in AltEnds(q, i, el.alts)}
      [] el.k = "any" ->
           {e \in i..(Len(q) + 1) : \A j \in i..(e - 1) : Ch(q, j) # "\n"}
      [] el.k = "id" -> IdRunEnds(q, i)

RECURSIVE MatchEnds(_, _, _, _)
\* the places where a match of elements n.. of pat that starts in S can end
MatchEnds(q, pat, n, S) ==
    IF n > Len(pat) \/ S = {} THEN S
    ELSE MatchEnds(q, pat, n + 1, UNION {ElemEnds(q, i, pat[n]) : i \in S})

\* re.search(pat, q) finds a match
ReSearch(pat, q) == MatchEnds(q, pat, 1, 1..(Len(q) + 1)) # {}

NoPattern == <<>>

\* the `patterns` table, in its order
Rules ==
    << [ name |-> "search_products",
         keywords |-> <<"find", "search", "show me", "look for", "groceries", "food",
                        "products", "items", "catalog">>,
         action |-> "search_products",
         tool |-> "catalog_products_search",
         pattern |-> <<Alt({"find", "search", "show me", "look for"}), Sp, AnyChars,
                       Alt({"groceries", "food", "products", "items"})>>,
         exclude_keywords |-> <<"indices", "indexes", "categories", "nutrition", "promotions">> ],
       [ name |-> "nutrition_search",
         keywords |-> <<"healthy", "health", "nutrition", "nutritious", "recommend", "suggest",
                        "good for", "diet", "calories", "vitamins">>,
         action |-> "nutrition_search",
         tool |-> "catalog_nutrition_search",
         pattern |-> <<Alt({"healthy", "health", "nutrition", "nutritious", "recommend",
                            "suggest", "diet", "calories", "vitamins"}), Sp, AnyChars>>,
         exclude_keywords |-> <<>> ],
       [ name |-> "promotions_search",
         keywords |-> <<"promotions", "promo", "deals", "discounts", "offers", "sale", "special">>,
         action |-> "promotions_search",
         tool |-> "catalog_promotions_search",
         pattern |-> <<Alt({"promotions", "promo", "deals", "discounts", "offers", "sale",
                            "special"}), Sp, AnyChars>>,
         exclude_keywords |-> <<>> ],
       [ name |-> "get_product",
         keywords |-> <<"get product", "retrieve product", "show product", "product id", "id">>,
         action |-> "get_product",
         tool |-> "platform_core_get_document_by_id",
         pattern |-> <<Alt({"get", "retrieve", "show"}), Sp, Alt({"product", "item"}), Sp, Id>>,
         exclude_keywords |-> <<>> ],
       [ name |-> "basket_analysis",
         keywords |-> <<"basket", "cart", "shopping list", "meal plan", "diet", "nutritional">>,
         action |-> "analyze_basket",
         tool |-> "catalog_products_search",
         pattern |-> NoPattern,
         exclude_keywords |-> <<>> ],
       [ name |-> "list_categories",
         keywords |-> <<"indices", "indexes", "list indices", "show indices", "list all indices",
                        "categories", "category", "list categories", "show categories", "types",
                        "show me indices">>,
         action |-> "list_categories",
         tool |-> "platform_core_list_indices",
         pattern |-> <<Alt({"list", "show"}), Sp, OptSp({"me"}), OptSp({"all"}),
                       Alt({"indices", "indexes", "categories"})>>,
         exclude_keywords |-> <<>> ],
       [ name |-> "get_schema",
         keywords |-> <<"schema", "structure", "fields", "mapping">>,
         action |-> "get_schema",
         tool |-> "platform_core_get_index_mapping",
         pattern |-> NoPattern,
         exclude_keywords |-> <<>> ],
       [ name |-> "index_explorer",
         keywords |-> <<"explore", "discover", "find indices", "what indices", "available data">>,
         action |-> "index_explorer",
         tool |-> "platform_core_index_explorer",
         pattern |-> <<Alt({"explore", "discover", "find indices", "what indices",
                            "available data"}), Sp, AnyChars>>,
         exclude_keywords |-> <<>> ] >>

\* the phrases whose presence sets a keyword candidate's confidence to 0.95
HighPriority == <<"indices", "indexes", "list indices", "show indices">>

\* any(x in q for x in words)
AnyIn(words, q) == \E i \in 1..Len(words) : Contains(q, words[i])

\* max(len(k) for k in keywords if k in q)
MaxMatchLen(keywords, q) ==
    LET L == {Len(keywords[i]) : i \in {j \in 1..Len(keywords) : Contains(q, keywords[j])}}
    IN  CHOOSE n \in L : \A x \in L : x <= n

MinOf(a, b) == IF a <= b THEN a ELSE b

Candidate(cfg, conf) ==
    [intent |-> cfg.name, action |-> cfg.action, tool |-> cfg.tool, confidence |-> conf]

\* the keyword confidence without the cap: 0.6 + max_len / 20.0
KeywordConfidence_Uncapped(cfg, q) ==
    IF AnyIn(HighPriority, q) THEN 95
    ELSE 60 + 5 * MaxMatchLen(cfg.keywords, q)

\* the confidence of a rule's keyword candidate: min(0.6 + max_len / 20.0, 0.95),
\* and 0.95 when q holds a high-priority phrase
KeywordConfidence(cfg, q) ==
    IF AnyIn(HighPriority, q) THEN 95
    ELSE MinOf(60 + 5 * MaxMatchLen(cfg.keywords, q), 95)

\* the candidates one rule appends: none when an exclude keyword is in q, else
\* the keyword candidate, then the pattern candidate
RuleCandidates(cfg, user_query, q) ==
    IF AnyIn(cfg.exclude_keywords, q) THEN <<>>
    ELSE (IF AnyIn(cfg.keywords, q) THEN <<Candidate(cfg, KeywordConfidence(cfg, q))>> ELSE <<>>)
         \o (IF cfg.pattern # NoPattern /\ ReSearch(cfg.pattern, user_query)
             THEN <<Candidate(cfg, 80)>>
             ELSE <<>>)

RECURSIVE Candidates(_, _, _)
\* the list `candidates` after the rules n.. of the table
Candidates(user_query, q, n) ==
    IF n > Len(Rules) THEN <<>>
    ELSE RuleCandidates(Rules[n], user_query, q) \o Candidates(user_query, q, n + 1)

\* the last candidate of maximal confidence
MaxByConfidence_Last(cands) ==
    cands[CHOOSE i \in 1..Len(cands) :
              /\ \A j \in 1..Len(cands) : cands[j].confidence <= cands[i].confidence
              /\ \A j \in (i + 1)..Len(cands) : cands[j].confidence < cands[i].confidence]

\* max(candidates, key=confidence): the first candidate of maximal confidence
MaxByConfidence(cands) ==
    cands[Min({i \in 1..Len(cands) : \A j \in 1..Len(cands) :
                                        cands[j].confidence <= cands[i].confidence})]

\* the literal of the LLM-based classifier's last line in its place
DefaultIntent_SearchProducts ==
    [intent |-> "search_products", action |-> "search_products",
     tool |-> "catalog_products_search", confidence |-> 50]

\* the dict returned when `candidates` is empty
DefaultIntent ==
    [intent |-> "search_groceries", action |-> "search_groceries",
     tool |-> "platform_core_search", confidence |-> 50]

\* _analyze_query_intent_rule_based(user_query)
AnalyzeQueryIntentRuleBased(user_query) ==
    LET cands == Candidates(user_query, Lower(user_query), 1) IN
    IF Len(cands) > 0 THEN MaxByConfidence(cands) ELSE DefaultIntent

(***************************************************************************)
(* SpecIntent: the rule-based classifier applied to bounded queries.       *)
(***************************************************************************)
MaxFragments == 2

\* the pieces the queries are put together from, joined by single spaces
Fragments ==
    { "list indices", "list all indices", "List Indices", "show me categories",
      "find healthy groceries", "find apples", "healthy", "apples", "id", "diet",
      "get product A1", "show item", "promo deals", "schema", "food", "explore data",
      "Show Item X1", "hello" }

RECURSIVE Join(_)
Join(parts) ==
    IF Len(parts) = 0 THEN ""
    ELSE IF Len(parts) = 1 THEN parts[1]
    ELSE parts[1] \o " " \o Join(Tail(parts))

Queries == {Join(parts) : parts \in UNION {[1..n -> Fragments] : n \in 0..MaxFragments}}

NoIntent == [intent |-> "", action |-> "", tool |-> "", confidence |-> 0]

IntentIdle == iQuery = "" /\ iDone = FALSE /\ iIntent = NoIntent

\* the call _analyze_query_intent_rule_based(iQuery)
Classify ==
    /\ ~iDone
    /\ iDone' = TRUE
    /\ iIntent' = AnalyzeQueryIntentRuleBased(iQuery)
    /\ UNCHANGED iQuery

(***************************************************************************)
(* Claims about the rule-based classifier (SpecIntent)                     *)
(***************************************************************************)
\* C5: every query whose text contains "list indices" is classified to the
\* action list_categories with confidence >= 0.95.
C5_ListIndicesWins ==
    (iDone /\ Contains(iQuery, "list indices")) =>
        /\ iIntent.action = "list_categories"
        /\ iIntent.confidence >= 95

\* no keyword of any rule is in the lower-cased query and no pattern of any
\* rule is found in the query
MatchesNoRule(user_query) ==
    \A n \in 1..Len(Rules) :
        /\ ~AnyIn(Rules[n].keywords, Lower(user_query))
        /\ Rules[n].pattern = NoPattern \/ ~ReSearch(Rules[n].pattern, user_query)

\* C16: a query that matches no keyword set and no pattern of the rule table
\* is classified to exactly the default intent: action search_groceries, tool
\* platform_core_search, confidence 0.5.
C16_DefaultIntent ==
    (iDone /\ MatchesNoRule(iQuery)) =>
        /\ iIntent.intent = "search_groceries"
        /\ iIntent.action = "search_groceries"
        /\ iIntent.tool = "platform_core_search"
        /\ iIntent.confidence = 50
        /\ DOMAIN iIntent = {"intent", "action", "tool", "confidence"}

\* C16's case: "hello Show Item X1" holds no keyword, and no pattern matches
\* it as it is written, and it has been classified
C16_Witness ==
    /\ iDone /\ iQuery = "hello Show Item X1" /\ MatchesNoRule(iQuery)
    /\ iIntent.action = "search_groceries"

\* the rules that are not excluded for q and have a keyword in q
KeywordRules(q) ==
    {n \in 1..Len(Rules) : ~AnyIn(Rules[n].exclude_keywords, q) /\ AnyIn(Rules[n].keywords, q)}

\* the rules that are not excluded for q and whose pattern is found in user_query
PatternRules(user_query, q) ==
    {n \in 1..Len(Rules) :
        /\ ~AnyIn(Rules[n].exclude_keywords, q)
        /\ Rules[n].pattern # NoPattern /\ ReSearch(Rules[n].pattern, user_query)}

\* the length of the longest keyword of rule n that is in q
LongestKeyword(n, q) ==
    LET L == {Len(Rules[n].keywords[i]) :
                 i \in {j \in 1..Len(Rules[n].keywords) : Contains(q, Rules[n].keywords[j])}}
    IN  CHOOSE x \in L : \A y \in L : y <= x

\* the confidences, in hundredths, the candidates for user_query have: a
\* keyword candidate min(0.6 + L/20, 0.95), or 0.95 with a high-priority
\* phrase in the query; a pattern candidate 0.8
CandidateConfidences(user_query) ==
    LET q == Lower(user_query)
        override == \E ph \in {"indices", "indexes", "list indices", "show indices"} :
                        Contains(q, ph)
        Scaled(L) == IF 60 + 5 * L < 95 THEN 60 + 5 * L ELSE 95
    IN  {IF override THEN 95 ELSE Scaled(LongestKeyword(n, q)) : n \in KeywordRules(q)}
        \cup {80 : n \in PatternRules(user_query, q)}

\* C24: the confidence the rule-based classifier returns lies in [0, 0.95]:
\* it is the confidence of one of the query's candidates (keyword:
\* min(0.6 + L/20, 0.95), or 0.95 by the high-priority override; pattern:
\* 0.8), and 0.5 when there is no candidate.
C24_ConfidenceClamped ==
    iDone =>
        LET confidences == CandidateConfidences(iQuery) IN
        /\ iIntent.confidence \in 0..95
        /\ IF confidences = {}
           THEN iIntent.confidence = 50
           ELSE iIntent.confidence \in confidences

\* C24's case: "find healthy groceries" has the keyword "groceries" of
\* length 9, 0.6 + 9/20 is over the cap, and the confidence returned is 0.95
C24_Witness ==
    /\ iDone /\ iQuery = "find healthy groceries"
    /\ 60 + 5 * LongestKeyword(1, Lower(iQuery)) > 95
    /\ iIntent.confidence = 95

\* the place in the table of the rule named name
RuleIndex(name) == CHOOSE n \in 1..Len(Rules) : Rules[n].name = name

\* the candidates of iQuery, in the order the rules append them
QueryCandidates == Candidates(iQuery, Lower(iQuery), 1)

\* C25: when a query has candidates, the returned intent is one of them, of
\* maximal confidence, and among the candidates of that confidence it is
\* from the rule that comes first in the table.
C25_FirstMaximalCandidate ==
    iDone =>
        LET cands == QueryCandidates IN
        Len(cands) > 0 =>
            /\ \E i \in 1..Len(cands) : cands[i] = iIntent
            /\ \A j \in 1..Len(cands) :
                  /\ cands[j].confidence <= iIntent.confidence
                  /\ cands[j].confidence = iIntent.confidence =>
                        RuleIndex(iIntent.intent) <= RuleIndex(cands[j].intent)

\* C25's case: "find healthy groceries" has candidates of confidence 0.95
\* from search_products and from nutrition_search, and search_products, the
\* first rule of the table, is returned
C25_Witness ==
    /\ iDone /\ iQuery = "find healthy groceries"
    /\ iIntent.intent = "search_products"
    /\ \E j \in 1..Len(QueryCandidates) :
          /\ QueryCandidates[j].intent = "nutrition_search"
          /\ QueryCandidates[j].confidence = iIntent.confidence

(***************************************************************************)
(* The orchestration service (src/src/groceries/service.py): the argument  *)
(* builders, the search payload schema (src/src/core/schemas.py), the       *)
(* enricher and execute.                                                    *)
(***************************************************************************)
\* cfg.products_index
ProductsIndex == "products"

SchemaVersion == "1.0.0"

\* repr() of the confidences the rule-based classifier computes, by hundredths
FloatRepr(h) ==
    CASE h = 50 -> "0.5"
      [] h = 65 -> "0.65"
      [] h = 70 -> "0.7"
      [] h = 75 -> "0.75"
      [] h = 80 -> "0.8"
      [] h = 85 -> "0.85"
      [] h = 90 -> "0.8999999999999999"
      [] h = 95 -> "0.95"

\* the dict _analyze_query_intent_rule_based returns
IntentDict(c) ==
    JObj(("intent" :> JStr(c.intent)) @@ ("action" :> JStr(c.action))
         @@ ("tool" :> JStr(c.tool)) @@ ("confidence" :> JFloat(FloatRepr(c.confidence))))

ArgsPlatformCoreSearch(user_query, index, limit, offset) ==
    JObj(("query" :> JStr(user_query)) @@ ("index" :> JStr(index))
         @@ ("limit" :> JNum(limit)) @@ ("offset" :> JNum(offset)))

ArgsNlQuery(user_query, index, limit, offset) ==
    JObj(("nlQuery" :> JStr(user_query)) @@ ("limit" :> JNum(limit))
         @@ ("offset" :> JNum(offset)))

\* the places i of q where (get|retrieve|show)\s+(product|item)\s+ matches up
\* to an identifier character, with the place of that character
GetByIdMatches(q) ==
    {m \in (1..Len(q)) \X (1..Len(q)) :
        /\ m[2] \in MatchEnds(q, <<Alt({"get", "retrieve", "show"}), Sp,
                                  Alt({"product", "item"}), Sp>>, 1, {m[1]})
        /\ IsIdChar(Ch(q, m[2]))}

\* re.search(...) on user_query.lower(): the leftmost match, group 3 greedy
ArgsGetById(user_query, index, limit, offset) ==
    LET q == Lower(user_query)
        ms == GetByIdMatches(q)
    IN  IF ms = {} THEN JObj(EmptyMap)
        ELSE LET m == CHOOSE x \in ms : \A y \in ms : x[1] <= y[1]
                 e == CHOOSE x \in IdRunEnds(q, m[2]) : \A y \in IdRunEnds(q, m[2]) : y <= x
             IN  JObj(("index" :> JStr(index)) @@ ("id" :> JStr(SubSeq(q, m[2], e - 1))))

\* a builder for platform_core_list_indices that names the index
ArgsListIndices_Index(user_query, index, limit, offset) == JObj("index" :> JStr(index))

ArgsListIndices(user_query, index, limit, offset) == JObj(EmptyMap)

ArgsGetMapping(user_query, index, limit, offset) ==
    JObj("indices" :> JArr(<<JStr(index)>>))

ArgsIndexExplorer(user_query, index, limit, offset) ==
    JObj(("query" :> JStr(user_query)) @@ ("limit" :> JNum(limit))
         @@ ("offset" :> JNum(offset)))

\* _build_arguments: TOOL_ARG_BUILDERS.get(tool), {} for a tool without builder
BuildArguments(tool, user_query, products_index, limit, offset) ==
    CASE tool = "platform_core_search" ->
             ArgsPlatformCoreSearch(user_query, products_index, limit, offset)
      [] tool \in {"catalog_products_search", "catalog_nutrition_search",
                   "catalog_promotions_search"} ->
             ArgsNlQuery(user_query, products_index, limit, offset)
      [] tool = "platform_core_get_document_by_id" ->
             ArgsGetById(user_query, products_index, limit, offset)
      [] tool = "platform_core_list_indices" ->
             ArgsListIndices(user_query, products_index, limit, offset)
      [] tool = "platform_core_get_index_mapping" ->
             ArgsGetMapping(user_query, products_index, limit, offset)
      [] tool = "platform_core_index_explorer" ->
             ArgsIndexExplorer(user_query, products_index, limit, offset)
      [] OTHER -> JObj(EmptyMap)

\* Optional[T]: None or a T
IsOptional(x, type) == x.t \in {"null", type}

\* Reference.model_validate: id and index are Optional[str]
ValidReference(r) ==
    IsDict(r) /\ IsOptional(Get(r, "id"), "str") /\ IsOptional(Get(r, "index"), "str")

\* HitData.model_validate
ValidHitData(d) ==
    /\ IsDict(d)
    /\ Get(d, "reference") = JNull \/ ValidReference(Get(d, "reference"))
    /\ IsOptional(Get(d, "content"), "obj")

\* SearchHit.model_validate
ValidSearchHit(h) ==
    IsDict(h) /\ (Get(h, "data") = JNull \/ ValidHitData(Get(h, "data")))

\* SearchPayload.model_validate(payload) succeeds
ValidSearchPayload(payload) ==
    /\ IsDict(payload)
    /\ Has(payload, "results") => /\ IsList(Get(payload, "results"))
                                  /\ \A i \in 1..Len(Get(payload, "results").v) :
                                        ValidSearchHit(Get(payload, "results").v[i])

\* model_dump() writes every declared field, None when it was not given, and
\* the extra fields as they came
DumpReference(r) ==
    IF r = JNull THEN JNull
    ELSE JObj(("id" :> Get(r, "id")) @@ ("index" :> Get(r, "index")) @@ r.v)

DumpHitData(d) ==
    IF d = JNull THEN JNull
    ELSE JObj(("reference" :> DumpReference(Get(d, "reference")))
              @@ ("content" :> Get(d, "content")) @@ d.v)

\* SearchHit.model_dump()
DumpSearchHit(h) == JObj(("data" :> DumpHitData(Get(h, "data"))) @@ h.v)

\* `hits` of _enrich_search_results_with_content for a payload that is a dict
\* with 'results': the validated hits dumped, or parsed['results'] as it is
EnricherHits(parsed) ==
    IF ValidSearchPayload(parsed)
    THEN JArr([i \in 1..Len(Get(parsed, "results").v) |->
                  DumpSearchHit(Get(parsed, "results").v[i])])
    ELSE Get(parsed, "results")

\* x.get(key, {}) raises AttributeError unless x is a dict
CanGet(x) == IsDict(x)

\* hit.get('data', {}).get('reference', {}): ok = FALSE is the AttributeError
HitReference(hit) ==
    IF ~CanGet(hit) \/ ~CanGet(GetOr(hit, "data", JObj(EmptyMap)))
    THEN [ok |-> FALSE, val |-> JNull]
    ELSE [ok |-> TRUE,
          val |-> GetOr(GetOr(hit, "data", JObj(EmptyMap)), "reference", JObj(EmptyMap))]

\* hit.get('data', {}).get('content', {}).get('highlights', [])
HitHighlights(hit) ==
    LET data == GetOr(hit, "data", JObj(EmptyMap))
        content == GetOr(data, "content", JObj(EmptyMap))
    IN  IF ~CanGet(content) THEN [ok |-> FALSE, val |-> JNull]
        ELSE [ok |-> TRUE, val |-> GetOr(content, "highlights", JArr(<<>>))]

\* what one turn of the enricher's loop does with a hit, up to the fetch:
\* "crash" (AttributeError), "skip" (continue) or "fetch"
HitStep(hit) ==
    LET ref == HitReference(hit) IN
    IF ~ref.ok \/ ~CanGet(ref.val) THEN [kind |-> "crash", id |-> JNull, index |-> JNull]
    ELSE IF ~(Truthy(Get(ref.val, "id")) /\ Truthy(Get(ref.val, "index")))
    THEN [kind |-> "skip", id |-> JNull, index |-> JNull]
    ELSE [kind |-> "fetch", id |-> Get(ref.val, "id"), index |-> Get(ref.val, "index")]

\* the entry appended to enriched_hits
EnrichedHit(hit, step, doc_raw) ==
    JObj(("id" :> step.id) @@ ("index" :> step.index)
         @@ ("search_highlights" :> HitHighlights(hit).val)
         @@ ("full_content" :> doc_raw))

\* hits, whatever top_n is
TopHits_All(hits, top_n) == hits

\* one hit more than max(0, top_n)
TopHits_OneMore(hits, top_n) ==
    SubSeq(hits, 1, MinOf(Len(hits), IF top_n < 0 THEN 1 ELSE top_n + 1))

\* the first max(0, top_n) hits, last one first
TopHits_Reversed(hits, top_n) ==
    LET n == IF top_n > Len(hits) THEN Len(hits) ELSE IF top_n < 0 THEN 0 ELSE top_n
    IN  [i \in 1..n |-> hits[n + 1 - i]]

\* hits[:max(0, top_n)]
TopHits(hits, top_n) ==
    SubSeq(hits, 1, IF top_n > Len(hits) THEN Len(hits) ELSE IF top_n < 0 THEN 0 ELSE top_n)

\* the enricher's result: dict(raw) with 'enriched_content'
WithEnrichedContent(raw, hits, enriched_hits) ==
    Put(raw, "enriched_content",
        JObj(("total_hits" :> JNum(Len(hits))) @@ ("enriched_hits" :> JArr(enriched_hits))))

\* execute's test for enriching the result
EnrichmentApplies(intent) ==
    \/ Get(intent, "action") \in {JStr("search_products"), JStr("nutrition_search"),
                                  JStr("promotions_search"), JStr("analyze_basket")}
    \/ Get(intent, "tool") = JStr("platform_core_search")

\* the pagination dict with has_more when total_hits >= offset + shown
Pagination_AtLeast(raw, limit, offset) ==
    LET base == ("limit" :> JNum(limit)) @@ ("offset" :> JNum(offset))
        ec == GetOr(raw, "enriched_content", JObj(EmptyMap))
        total == Get(ec, "total_hits")
        shown == Len(GetOr(ec, "enriched_hits", JArr(<<>>)).v)
    IN  IF ~IsDict(raw) \/ ~IsDict(ec) \/ ~IsList(GetOr(ec, "enriched_hits", JArr(<<>>)))
        THEN JObj(base)
        ELSE IF total.t = "num"
        THEN JObj(("has_more" :> JBool(total.v >= offset + shown))
                  @@ ("next_offset" :> (IF total.v >= offset + shown
                                        THEN JNum(offset + shown) ELSE JNull))
                  @@ base)
        ELSE JObj(base)

\* the pagination dict of execute for the (possibly enriched) result raw; an
\* exception inside the try leaves limit and offset alone
Pagination(raw, limit, offset) ==
    LET base == ("limit" :> JNum(limit)) @@ ("offset" :> JNum(offset))
        ec == GetOr(raw, "enriched_content", JObj(EmptyMap))
        total == Get(ec, "total_hits")
        shown == Len(GetOr(ec, "enriched_hits", JArr(<<>>)).v)
    IN  IF ~IsDict(raw) \/ ~IsDict(ec) \/ ~IsList(GetOr(ec, "enriched_hits", JArr(<<>>)))
        THEN JObj(base)
        ELSE IF total.t = "num"
        THEN JObj(("has_more" :> JBool(total.v > offset + shown))
                  @@ ("next_offset" :> (IF total.v > offset + shown
                                        THEN JNum(offset + shown) ELSE JNull))
                  @@ base)
        ELSE JObj(base)

\* settings.character_limit, as CHARACTER_LIMIT sets it
CharacterLimit == 600

TruncationMessage(length) ==
    "Response length " \o IntToStr(length) \o " exceeds character limit "
    \o IntToStr(CharacterLimit) \o ". Consider using 'limit'/'offset' or adding filters."

\* an `out` that drops mcp_result when the rendering is over the limit
ExecuteOut_Cut(req, intent, raw) ==
    LET pagination == IF EnrichmentApplies(intent)
                      THEN Pagination(raw, req.limit, req.offset)
                      ELSE JObj(("limit" :> JNum(req.limit)) @@ ("offset" :> JNum(req.offset)))
        out == JObj(("query" :> JStr(req.query)) @@ ("intent" :> intent)
                    @@ ("mcp_result" :> raw) @@ ("pagination" :> pagination)
                    @@ ("schema_version" :> JStr(SchemaVersion)))
        length == DumpsLen(out)
    IN  IF length > CharacterLimit
        THEN Put(Put(Put(out, "mcp_result", JNull), "truncated", JBool(TRUE)),
                 "truncation_message", JStr(TruncationMessage(length)))
        ELSE out

\* the dict `out` of execute before the LLM analysis
ExecuteOut(req, intent, raw) ==
    LET pagination == IF EnrichmentApplies(intent)
                      THEN Pagination(raw, req.limit, req.offset)
                      ELSE JObj(("limit" :> JNum(req.limit)) @@ ("offset" :> JNum(req.offset)))
        out == JObj(("query" :> JStr(req.query)) @@ ("intent" :> intent)
                    @@ ("mcp_result" :> raw) @@ ("pagination" :> pagination)
                    @@ ("schema_version" :> JStr(SchemaVersion)))
        length == DumpsLen(out)
    IN  IF length > CharacterLimit
        THEN Put(Put(out, "truncated", JBool(TRUE)),
                 "truncation_message", JStr(TruncationMessage(length)))
        ELSE out

RECURSIVE Strip(_)
\* s.strip()
Strip(s) ==
    IF s = "" THEN ""
    ELSE IF IsSpace(Head(s)) THEN Strip(Tail(s))
    ELSE IF IsSpace(Ch(s, Len(s))) THEN Strip(SubSeq(s, 1, Len(s) - 1))
    ELSE s

\* user_query.lower(), not stripped
CacheKey_NoStrip(user_query) == Lower(user_query)

\* user_query.lower().strip()
CacheKey(user_query) == Strip(Lower(user_query))

\* text.find(c) and text.rfind(c) for a character c, counted from 1; 0 when
\* c is not in text
Find(text, c) ==
    IF \E i \in 1..Len(text) : Ch(text, i) = c
    THEN CHOOSE i \in 1..Len(text) : Ch(text, i) = c /\ \A j \in 1..(i - 1) : Ch(text, j) # c
    ELSE 0

RFind(text, c) ==
    IF \E i \in 1..Len(text) : Ch(text, i) = c
    THEN CHOOSE i \in 1..Len(text) :
             Ch(text, i) = c /\ \A j \in (i + 1)..Len(text) : Ch(text, j) # c
    ELSE 0

\* the fallback of _analyze_query_intent_with_llm
FallbackIntent ==
    JObj(("intent" :> JStr("search_products")) @@ ("action" :> JStr("search_products"))
         @@ ("tool" :> JStr("catalog_products_search")) @@ ("confidence" :> JFloat("0.5"))
         @@ ("reasoning" :> JStr("Fallback")))

IntentFields == {"intent", "action", "tool", "confidence"}

\* _analyze_query_intent_with_llm storing whatever it returns, the fallback
\* too
IntentFromText_CacheFallback(text) ==
    LET start == Find(text, "{")
        end == RFind(text, "}")
        data == IF start # 0
                THEN JsonLoads(IF end >= start THEN SubSeq(text, start, end) ELSE "")
                ELSE [ok |-> TRUE, val |-> JObj(EmptyMap)]
    IN  [cached |-> TRUE,
         intent |-> IF data.ok /\ \A k \in IntentFields : In(k, data.val)
                    THEN data.val ELSE FallbackIntent]

\* what _analyze_query_intent_with_llm makes of the LLM's text: the intent it
\* returns and whether it stores it in the cache
IntentFromText(text) ==
    LET start == Find(text, "{")
        end == RFind(text, "}")
        data == IF start # 0
                THEN JsonLoads(IF end >= start THEN SubSeq(text, start, end) ELSE "")
                ELSE [ok |-> TRUE, val |-> JObj(EmptyMap)]
    IN  IF data.ok /\ \A k \in IntentFields : In(k, data.val)
        THEN [cached |-> TRUE, intent |-> data.val]
        ELSE [cached |-> FALSE, intent |-> FallbackIntent]

\* hits[:5] of _generate_llm_analysis, whose summary reads each hit's
\* reference and content with .get and `in`
SummaryHitOk(h) ==
    /\ HitReference(h).ok
    /\ CanGet(HitReference(h).val)
    /\ GetOr(GetOr(h, "data", JObj(EmptyMap)), "content", JObj(EmptyMap)).t
           \in {"obj", "arr", "str"}

\* _generate_llm_analysis builds its summary without raising; parsed is
\* parse_mcp_content_text(mcp_result)
SummaryOk(mcp_result, parsed) ==
    IF ~IsDict(mcp_result) THEN mcp_result.t \in {"arr", "str"}
    ELSE IF Has(mcp_result, "enriched_content") THEN TRUE
    ELSE IF ~(Truthy(parsed) /\ In("results", parsed)) THEN TRUE
    ELSE /\ IsDict(parsed)
         /\ IsList(Get(parsed, "results"))
         /\ \A i \in 1..MinOf(5, Len(Get(parsed, "results").v)) :
                SummaryHitOk(Get(parsed, "results").v[i])

(***************************************************************************)
(* SpecExec: one run of execute against a tool invoker and an LLM client    *)
(* that answer each call as they like.                                      *)
(***************************************************************************)
MaxHits == 2

MaxOffset == 1

MaxTopN == 2

\* tool_invoker: "MCPClient" is the MCPClient execute builds by default (or one
\* handed in), "ToolInvoker" an object with the operations of the ToolInvoker
\* protocol, list_tools and call_tool, and nothing more
InvokerKinds == {"MCPClient", "ToolInvoker"}

ExecQueries == {"find healthy groceries", "hello", "list all indices", "get product A1"}

Requests ==
    [query : ExecQueries, use_llm : BOOLEAN, limit : {1, 20}, offset : 0..MaxOffset,
     top_n : (-1)..MaxTopN, invoker : InvokerKinds]

Reference(id, index) == JObj(("id" :> JStr(id)) @@ ("index" :> JStr(index)))

HitApple ==
    JObj("data" :> JObj(("reference" :> Reference("DOC1", "products"))
                        @@ ("content" :> JObj(("name" :> JStr("Apple"))
                                              @@ ("highlights" :> JArr(<<JStr("apple")>>))))))

HitBanana ==
    JObj("data" :> JObj(("reference" :> Reference("DOC2", "products"))
                        @@ ("content" :> JObj("name" :> JStr("Banana")))))

\* a hit whose reference has no id
HitNoId ==
    JObj("data" :> JObj(("reference" :> JObj("index" :> JStr("products")))
                        @@ ("content" :> JObj("name" :> JStr("Cherry")))))

\* a hit without data
HitNoData == JObj("score" :> JNum(1))

\* a hit with a reference and no content
HitNoContent == JObj("data" :> JObj("reference" :> Reference("DOC3", "products")))

\* a hit whose id is a number: the payload fails the schema
HitIntId ==
    JObj("data" :> JObj(("reference" :> JObj(("id" :> JNum(7)) @@ ("index" :> JStr("products"))))
                        @@ ("content" :> JObj(EmptyMap))))

\* the `results` lists of the search payloads
HitLists ==
    UNION {[1..n -> {HitApple, HitBanana, HitNoId}] : n \in 0..MaxHits}
    \cup {<<HitNoData>>, <<HitApple, HitNoContent>>, <<HitIntId, HitNoData>>}

\* a tool result whose one text block is text
TextResult(text) == JObj("content" :> JArr(<<TextBlock(text)>>))

SearchResult(hits) == TextResult(JsonDumps(JObj("results" :> JArr(hits))))

\* a tool result that carries an error, as call_tool folds it in
ErrorResult ==
    JObj(("content" :> JArr(<<TextBlock("index not found")>>)) @@ IsError
         @@ ("error" :> JStr("Tool error: index not found")))

\* what call_tool may return for the selected tool
ToolResults ==
    {SearchResult(hits) : hits \in HitLists}
    \cup {TextResult("no results"), TextResult("{\"ok\": true}"),
          TextResult("{\"results\": null}"), ErrorResult}

\* parse_mcp_content_text(r) for each of them
ParsedResult == [r \in ToolResults |-> ParseMcpContentText(r)]

\* call_tool raising: MCPClient's MCPError after its retries
ToolFailure == RequestFailed("tools/call", "500 Server Error")

ToolOutcomes == {Return(r) : r \in ToolResults} \cup {ToolFailure}

\* the document a get-document-by-id call returns
DocResult(index, id) ==
    SearchResult(<<JObj("data" :> JObj(("reference" :> JObj(("id" :> id) @@ ("index" :> index)))
                                       @@ ("content" :> JObj("nutrition_score" :> JNum(90)))))>>)

FetchOutcomes(index, id) == {Return(DocResult(index, id)), ToolFailure}

LlmFailure == Raise("LLMInvokeError", "Bedrock invocation failed: ThrottlingException")

\* the texts the LLM answers the classification prompt with
LlmIntentTexts ==
    { "{\"intent\": \"search\", \"action\": \"search_products\", \"tool\": \"platform_core_search\", \"confidence\": 0.9, \"reasoning\": \"general\"}",
      "Here you go: {\"intent\": \"list\", \"action\": \"list_categories\", \"tool\": \"platform_core_list_indices\", \"confidence\": 1} I hope this helps.",
      "I cannot tell.",
      "{\"intent\": \"search\", \"tool\": \"platform_core_search\"}",
      "{\"intent\": \"search\"" }

\* the texts the LLM answers the analysis prompt with
AnalysisTexts == {" ANALYSIS\n", ""}

\* out['llm_analysis'] = text, with the text stripped first
WithAnalysis_Stripped(out, text) == Put(out, "llm_analysis", JStr(Strip(text.v)))

\* out['llm_analysis'] = text
WithAnalysis(out, text) == Put(out, "llm_analysis", text)

LlmOutcomes(texts) == {Return(JStr(t)) : t \in texts} \cup {LlmFailure}

\* a call on the tool invoker or the LLM client and how it ended
Call(method, name, arguments, outcome) ==
    [method |-> method, name |-> name, arguments |-> arguments, outcome |-> outcome.kind]

EmptyCache == [k \in {} |-> JNull]

\* what an earlier classification of "hello" stored: the LLM named a tool
\* that TOOL_ARG_BUILDERS does not know
HelloEntry ==
    CacheKey("hello") :> JObj(("intent" :> JStr("search")) @@ ("action" :> JStr("web_search"))
                              @@ ("tool" :> JStr("web_search"))
                              @@ ("confidence" :> JNum(1)))

\* _INTENT_CACHE when execute(req) is called: empty, or holding an entry for
\* the query; a run reads and writes no other entry, and none at all without
\* use_llm
InitialCaches(req) ==
    IF req.use_llm /\ CacheKey(req.query) \in DOMAIN HelloEntry
    THEN {EmptyCache, HelloEntry}
    ELSE {EmptyCache}

NoRequest ==
    [query |-> "", use_llm |-> FALSE, limit |-> 0, offset |-> 0, top_n |-> 0,
     invoker |-> "MCPClient"]

ExecIdle ==
    /\ xPc = "idle" /\ xReq = NoRequest /\ xIntent = JNull /\ xRaw = JNull
    /\ xParsed = JNull
    /\ xHits = <<>> /\ xNext = 0 /\ xEnriched = <<>> /\ xCalls = <<>>
    /\ xOut = NoOut /\ xCache = EmptyCache /\ xText = JNull

\* execute raises exc
Fail(exc) == xPc' = "raised" /\ xOut' = exc

\* execute's `raw` after the enricher: dict(raw) with 'enriched_content' once
\* the enricher has come to its loop, the tool's result as it is before that
McpResult ==
    IF xNext > 0 THEN WithEnrichedContent(xRaw, xHits, xEnriched) ELSE xRaw

\* the rest of execute once its `raw` is final: the envelope, handed back at
\* once unless use_llm asks for the analysis first
Finish ==
    IF xReq.use_llm
    THEN xPc' = "analysis" /\ xOut' = NoOut
    ELSE xPc' = "returned" /\ xOut' = Return(ExecuteOut(xReq, xIntent, McpResult'))

NoAttribute ==
    Raise("AttributeError", "object has no attribute 'platform_core_get_document_by_id'")

NoneHasNoGet == Raise("AttributeError", "'NoneType' object has no attribute 'get'")

NotSubscriptable == Raise("TypeError", "object is not subscriptable")

\* the intent: _analyze_query_intent_rule_based, or _analyze_query_intent_with_llm
\* with its cache and its one LLM call
ExecIntent ==
    /\ xPc = "intent"
    /\ IF ~xReq.use_llm
       THEN /\ xIntent' = IntentDict(AnalyzeQueryIntentRuleBased(xReq.query))
            /\ xPc' = "call"
            /\ UNCHANGED <<xCalls, xCache, xOut>>
       ELSE IF CacheKey(xReq.query) \in DOMAIN xCache
       THEN /\ xIntent' = xCache[CacheKey(xReq.query)]
            /\ xPc' = "call"
            /\ UNCHANGED <<xCalls, xCache, xOut>>
       ELSE \E o \in LlmOutcomes(LlmIntentTexts) :
            /\ xCalls' = Append(xCalls, Call("invoke_text", "intent", JStr(xReq.query), o))
            /\ IF o.kind = "raise"
               THEN Fail(o) /\ UNCHANGED <<xIntent, xCache>>
               ELSE /\ xIntent' = IntentFromText(o.val.v).intent
                    /\ xCache' = IF IntentFromText(o.val.v).cached
                                 THEN (CacheKey(xReq.query) :> xIntent') @@ xCache
                                 ELSE xCache
                    /\ xPc' = "call"
                    /\ UNCHANGED xOut
    /\ UNCHANGED <<xReq, xRaw, xParsed, xHits, xNext, xEnriched, xText>>

\* _build_arguments, client.call_tool and the enricher up to its loop
ExecCallTool ==
    /\ xPc = "call"
    /\ UNCHANGED <<xReq, xIntent, xCache, xText>>
    /\ \E o \in ToolOutcomes :
       /\ xCalls' = Append(xCalls,
              Call("call_tool", Get(xIntent, "tool").v,
                   BuildArguments(Get(xIntent, "tool").v, xReq.query, ProductsIndex,
                                  xReq.limit, xReq.offset), o))
       /\ IF o.kind = "raise"
          THEN Fail(o) /\ UNCHANGED <<xRaw, xParsed, xHits, xNext, xEnriched>>
          ELSE /\ xRaw' = o.val
               /\ xParsed' = ParsedResult[o.val]
               /\ IF \/ ~EnrichmentApplies(xIntent)
                     \/ ~Truthy(xParsed')
                     \/ ~In("results", xParsed')
                  THEN UNCHANGED <<xHits, xNext, xEnriched>> /\ Finish
                  ELSE IF ~IsDict(xParsed') \/ ~IsList(EnricherHits(xParsed'))
                  THEN UNCHANGED <<xHits, xNext, xEnriched>> /\ Fail(NotSubscriptable)
                  ELSE /\ xHits' = EnricherHits(xParsed').v
                       /\ xEnriched' = <<>>
                       /\ xNext' = 1
                       /\ IF TopHits(xHits', xReq.top_n) = <<>>
                          THEN Finish
                          ELSE xPc' = "enrich" /\ xOut' = NoOut

\* one turn of the loop over hits[:max(0, top_n)], and what follows the loop
\* after its last turn
ExecEnrich ==
    /\ xPc = "enrich"
    /\ UNCHANGED <<xReq, xIntent, xRaw, xParsed, xHits, xCache, xText>>
    /\ LET top == TopHits(xHits, xReq.top_n)
           hit == top[xNext]
           step == HitStep(hit)
           Advance(enriched) ==
               /\ xEnriched' = enriched
               /\ xNext' = xNext + 1
               /\ IF xNext = Len(top) THEN Finish ELSE UNCHANGED <<xPc, xOut>>
       IN  CASE step.kind = "crash" ->
                    Fail(NoneHasNoGet) /\ UNCHANGED <<xNext, xEnriched, xCalls>>
             [] step.kind = "skip" ->
                    Advance(xEnriched) /\ UNCHANGED xCalls
             [] step.kind = "fetch" ->
                    IF xReq.invoker = "ToolInvoker"
                    THEN Fail(NoAttribute) /\ UNCHANGED <<xNext, xEnriched, xCalls>>
                    ELSE \E o \in FetchOutcomes(step.index, step.id) :
                         /\ xCalls' = Append(xCalls,
                                Call("platform_core_get_document_by_id",
                                     "platform_core_get_document_by_id",
                                     JObj(("index" :> step.index) @@ ("id" :> step.id)), o))
                         /\ IF o.kind = "raise"
                            THEN Fail(o) /\ UNCHANGED <<xNext, xEnriched>>
                            ELSE IF ~HitHighlights(hit).ok
                            THEN Fail(NoneHasNoGet) /\ UNCHANGED <<xNext, xEnriched>>
                            ELSE Advance(Append(xEnriched, EnrichedHit(hit, step, o.val)))

\* _generate_llm_analysis and the return of execute
ExecAnalysis ==
    /\ xPc = "analysis"
    /\ IF ~SummaryOk(McpResult, xParsed)
       THEN Fail(NoneHasNoGet) /\ UNCHANGED <<xCalls, xText>>
       ELSE \E o \in LlmOutcomes(AnalysisTexts) :
            /\ xCalls' = Append(xCalls, Call("invoke_text", "analysis", JStr(xReq.query), o))
            /\ IF o.kind = "raise"
               THEN Fail(o) /\ UNCHANGED xText
               ELSE /\ xText' = o.val
                    /\ xPc' = "returned"
                    /\ xOut' = Return(WithAnalysis(ExecuteOut(xReq, xIntent, McpResult),
                                                   xText'))
    /\ UNCHANGED <<xReq, xIntent, xRaw, xParsed, xHits, xNext, xEnriched, xCache>>

(***************************************************************************)
(* Claims about enrichment and pagination (SpecExec)                        *)
(***************************************************************************)
ExecReturned == xPc = "returned"

ExecDone == xPc \in {"returned", "raised"}

\* mcp_result of the returned envelope
ReturnedResult == Get(xOut.val, "mcp_result")

\* execute returned an envelope whose mcp_result carries enriched_content
ReturnedEnriched ==
    ExecReturned /\ IsDict(ReturnedResult) /\ Has(ReturnedResult, "enriched_content")

ReturnedEnrichedHits == Get(Get(ReturnedResult, "enriched_content"), "enriched_hits").v

\* the selected tool returned a search payload: a dict with a `results` list
SearchPayloadReturned ==
    /\ xPc \notin {"intent", "call"}
    /\ EnrichmentApplies(xIntent)
    /\ IsDict(xParsed)
    /\ IsList(Get(xParsed, "results"))

\* the hits of that payload, as the tool sent them
PayloadHits == Get(xParsed, "results").v

\* x[key] where x is a dict holding key, None otherwise
Field(x, key) == IF IsDict(x) THEN Get(x, key) ELSE JNull

RefId(hit) == Field(Field(Field(hit, "data"), "reference"), "id")

RefIndex(hit) == Field(Field(Field(hit, "data"), "reference"), "index")

\* the hit carries a non-empty id and a non-empty index
HasReference(hit) == Truthy(RefId(hit)) /\ Truthy(RefIndex(hit))

\* the first n hits of the payload, n clipped to 0..N
FirstHits(n) ==
    SubSeq(PayloadHits, 1, IF n < 0 THEN 0 ELSE MinOf(n, Len(PayloadHits)))

\* those of the first n hits that carry a reference, in hit order
ReferencedAmong(n) == SelectSeq(FirstHits(n), HasReference)

\* the enriched hits es are the entries of the hits hs, one each, in order
EntriesOf(es, hs) ==
    /\ Len(es) = Len(hs)
    /\ \A i \in 1..Len(es) :
          /\ Get(es[i], "id") = RefId(hs[i]) /\ Truthy(Get(es[i], "id"))
          /\ Get(es[i], "index") = RefIndex(hs[i]) /\ Truthy(Get(es[i], "index"))

\* C6 as the spec states it: for a payload of N >= 1 hits and top_n = k, the
\* returned enriched_hits has exactly min(N, k) entries, each with a non-empty
\* id and a non-empty index.
C6_EnrichedCountIsMin ==
    (ReturnedEnriched /\ SearchPayloadReturned /\ Len(PayloadHits) >= 1) =>
        /\ Len(ReturnedEnrichedHits) = MinOf(Len(PayloadHits), xReq.top_n)
        /\ \A i \in 1..Len(ReturnedEnrichedHits) :
              /\ Truthy(Get(ReturnedEnrichedHits[i], "id"))
              /\ Truthy(Get(ReturnedEnrichedHits[i], "index"))

\* C6, amended: enriched_hits holds one entry, with a non-empty id and index,
\* for each of the first max(0, k) hits that carries a non-empty id and a
\* non-empty index, in hit order, and nothing else; so it has min(N, k) entries
\* when k >= 0 and each of the first k hits carries both.  The same holds of
\* the hits the loop has already passed while the enricher is still running.
C6_EnrichedAreReferencedTopHits ==
    /\ (ReturnedEnriched /\ SearchPayloadReturned) =>
          /\ EntriesOf(ReturnedEnrichedHits, ReferencedAmong(xReq.top_n))
          /\ (xReq.top_n >= 0 /\ \A i \in 1..Len(FirstHits(xReq.top_n)) :
                                     HasReference(FirstHits(xReq.top_n)[i]))
                => Len(ReturnedEnrichedHits) = MinOf(Len(PayloadHits), xReq.top_n)
    /\ (xPc = "enrich" /\ SearchPayloadReturned) =>
          /\ xNext - 1 <= MinOf(xReq.top_n, Len(PayloadHits))
          /\ EntriesOf(xEnriched, ReferencedAmong(xNext - 1))

\* C6's case: two hits carrying references, top_n = 1, one enriched hit
C6_Witness ==
    /\ ReturnedEnriched /\ SearchPayloadReturned
    /\ Len(PayloadHits) = 2 /\ xReq.top_n = 1
    /\ \A i \in 1..2 : HasReference(PayloadHits[i])
    /\ Len(ReturnedEnrichedHits) = 1

\* C7: with a tool invoker that offers list_tools and call_tool only, a run
\* with use_llm = False whose search call returned N >= 1 hits carrying
\* references ends, for top_n = k >= 1, by returning an envelope with
\* min(N, k) enriched hits.
C7_InterfaceOnlyInvokerEnriches ==
    (/\ ExecDone /\ xReq.invoker = "ToolInvoker" /\ ~xReq.use_llm
     /\ SearchPayloadReturned
     /\ Len(PayloadHits) >= 1 /\ xReq.top_n >= 1
     /\ \A i \in 1..Len(PayloadHits) : HasReference(PayloadHits[i])) =>
        /\ ReturnedEnriched
        /\ Len(ReturnedEnrichedHits) = MinOf(Len(PayloadHits), xReq.top_n)

\* the follow-up fetches of the run and how they ended, in order
FetchCalls == SelectSeq(xCalls, LAMBDA c : c.method = "platform_core_get_document_by_id")

\* C8: a run with use_llm = False in which a follow-up fetch failed still
\* returns an envelope, whose enriched_hits are the hits whose fetch succeeded,
\* in their order, and no fetch is issued twice.
C8_FailedFetchDropsHit ==
    (/\ ExecDone /\ ~xReq.use_llm
     /\ \E i \in 1..Len(FetchCalls) : FetchCalls[i].outcome = "raise") =>
        /\ ReturnedEnriched
        /\ LET fetched == SelectSeq(FetchCalls, LAMBDA c : c.outcome = "return") IN
           /\ Len(ReturnedEnrichedHits) = Len(fetched)
           /\ \A i \in 1..Len(fetched) :
                 Get(ReturnedEnrichedHits[i], "id") = Get(fetched[i].arguments, "id")
        /\ \A i, j \in 1..Len(FetchCalls) :
              FetchCalls[i].arguments = FetchCalls[j].arguments => i = j

ReturnedPagination == Get(xOut.val, "pagination")

\* C9: the pagination of a returned envelope has the caller's limit and
\* offset, and when the result was enriched, has_more is true exactly when
\* total_hits > offset + the number of enriched hits, and next_offset is that
\* sum when has_more is true and null otherwise.
C9_Pagination ==
    ExecReturned =>
        /\ Get(ReturnedPagination, "limit") = JNum(xReq.limit)
        /\ Get(ReturnedPagination, "offset") = JNum(xReq.offset)
        /\ ReturnedEnriched =>
              LET total == Get(Get(ReturnedResult, "enriched_content"), "total_hits").v
                  shown == Len(ReturnedEnrichedHits)
              IN  /\ Has(ReturnedPagination, "has_more")
                  /\ Has(ReturnedPagination, "next_offset")
                  /\ Get(ReturnedPagination, "has_more") = JBool(total > xReq.offset + shown)
                  /\ Get(ReturnedPagination, "next_offset") =
                         IF total > xReq.offset + shown
                         THEN JNum(xReq.offset + shown) ELSE JNull

\* C9's case: an enriched result with more hits than were shown
C9_Witness ==
    /\ ReturnedEnriched
    /\ Get(ReturnedPagination, "has_more") = JBool(TRUE)
    /\ Get(ReturnedPagination, "next_offset") = JNum(xReq.offset + Len(ReturnedEnrichedHits))
    /\ Len(ReturnedEnrichedHits) >= 1

(***************************************************************************)
(* Claims about the arguments, the truncation flag and the analysis         *)
(* (SpecExec)                                                               *)
(***************************************************************************)
\* the calls of call_tool so far, in order
ToolCalls == SelectSeq(xCalls, LAMBDA c : c.method = "call_tool")

\* execute has its intent
HasIntent == xIntent # JNull

\* execute has made its call of the selected tool
ToolCalled == HasIntent /\ xPc # "call"

IndexNames == {ProductsIndex, "catalog"}

\* C17: "list all indices" is classified by the rules to the tool
\* platform_core_list_indices; the arguments built for that tool are {} for
\* every query, index name, limit and offset; and execute calls the tool
\* with {}.
C17_ListIndicesEmptyArguments ==
    /\ \A q \in ExecQueries : \A index \in IndexNames :
       \A limit \in {1, 20} : \A offset \in 0..MaxOffset :
           BuildArguments("platform_core_list_indices", q, index, limit, offset)
               = JObj(EmptyMap)
    /\ (HasIntent /\ ~xReq.use_llm /\ xReq.query = "list all indices") =>
           Get(xIntent, "tool") = JStr("platform_core_list_indices")
    /\ (ToolCalled /\ Get(xIntent, "tool") = JStr("platform_core_list_indices")) =>
           /\ Len(ToolCalls) = 1
           /\ ToolCalls[1].name = "platform_core_list_indices"
           /\ ToolCalls[1].arguments = JObj(EmptyMap)

\* C17's case: execute("list all indices", use_llm=False) returned after its
\* one call of platform_core_list_indices, with {}
C17_Witness ==
    /\ xPc = "returned" /\ ~xReq.use_llm /\ xReq.query = "list all indices"
    /\ xReq.limit = 20 /\ xReq.offset = 1
    /\ xCalls = <<[method |-> "call_tool", name |-> "platform_core_list_indices",
                   arguments |-> JObj(EmptyMap), outcome |-> "return"]>>

\* the identifiers of user_query that follow (get|retrieve|show), (product|item)
\* and white space, the words in either case, each as the query writes it
IdentifiersIn(user_query) ==
    {SubSeq(user_query, m[2],
            (CHOOSE e \in IdRunEnds(user_query, m[2]) :
                 \A y \in IdRunEnds(user_query, m[2]) : y <= e) - 1) :
        m \in GetByIdMatches(Lower(user_query))}

\* C18: the arguments execute builds for platform_core_get_document_by_id
\* are {} when the query holds no identifier after '(get|retrieve|show)
\* (product|item)', and otherwise exactly {index: the default index, id: the
\* identifier extracted from the query}.
C18_GetByIdArguments ==
    (ToolCalled /\ Get(xIntent, "tool") = JStr("platform_core_get_document_by_id")) =>
        /\ Len(ToolCalls) = 1
        /\ IF IdentifiersIn(xReq.query) = {}
           THEN ToolCalls[1].arguments = JObj(EmptyMap)
           ELSE \E id \in IdentifiersIn(xReq.query) :
                    ToolCalls[1].arguments
                        = JObj(("index" :> JStr(ProductsIndex)) @@ ("id" :> JStr(id)))

\* the envelope execute serializes: the returned one without the keys added
\* after that
RenderedEnvelope ==
    JObj([k \in {"query", "intent", "mcp_result", "pagination", "schema_version"} |->
             xOut.val.v[k]])

\* C19: the returned envelope has `truncated` (True, with the truncation
\* message) exactly when the JSON serialization of {query, intent,
\* mcp_result, pagination, schema_version} is longer than the character
\* limit, and either way query, intent, mcp_result and pagination are what
\* execute computed: nothing is cut or dropped.
C19_TruncationOnlyFlags ==
    ExecReturned =>
        /\ Has(xOut.val, "truncated") <=> DumpsLen(RenderedEnvelope) > CharacterLimit
        /\ Has(xOut.val, "truncated") <=> Has(xOut.val, "truncation_message")
        /\ Has(xOut.val, "truncated") =>
              /\ Get(xOut.val, "truncated") = JBool(TRUE)
              /\ Get(xOut.val, "truncation_message")
                    = JStr(TruncationMessage(DumpsLen(RenderedEnvelope)))
        /\ Get(xOut.val, "query") = JStr(xReq.query)
        /\ Get(xOut.val, "intent") = xIntent
        /\ Get(xOut.val, "mcp_result") = McpResult
        /\ Get(xOut.val, "pagination")
              = IF EnrichmentApplies(xIntent)
                THEN Pagination(McpResult, xReq.limit, xReq.offset)
                ELSE JObj(("limit" :> JNum(xReq.limit)) @@ ("offset" :> JNum(xReq.offset)))
        /\ Get(xOut.val, "schema_version") = JStr(SchemaVersion)

\* C19's case: an envelope over the limit was returned, flagged, with the
\* enriched hits of its mcp_result in place
C19_Witness ==
    /\ ReturnedEnriched
    /\ Get(xOut.val, "truncated") = JBool(TRUE)
    /\ DumpsLen(RenderedEnvelope) > CharacterLimit
    /\ Len(ReturnedEnrichedHits) >= 1

\* the calls of invoke_text so far, in order
LlmCalls == SelectSeq(xCalls, LAMBDA c : c.method = "invoke_text")

\* C20: the returned envelope has `llm_analysis` exactly when use_llm is
\* true, and its value is then the very text invoke_text returned for the
\* analysis prompt; without use_llm the LLM client is not called at all.
C20_AnalysisIffUseLlm ==
    ExecReturned =>
        /\ Has(xOut.val, "llm_analysis") <=> xReq.use_llm
        /\ xReq.use_llm =>
              /\ xText # JNull
              /\ Get(xOut.val, "llm_analysis") = xText
              /\ xCalls[Len(xCalls)]
                    = [method |-> "invoke_text", name |-> "analysis",
                       arguments |-> JStr(xReq.query), outcome |-> "return"]
        /\ ~xReq.use_llm => xText = JNull /\ LlmCalls = <<>>

\* C20's case: execute with use_llm returned an envelope whose llm_analysis
\* is the text the LLM gave, white space and all
C20_Witness ==
    /\ ExecReturned /\ xReq.use_llm
    /\ xText = JStr(" ANALYSIS\n")
    /\ Get(xOut.val, "llm_analysis") = JStr(" ANALYSIS\n")

\* the call of invoke_text for the analysis prompt has been made
AnalysisAttempted ==
    \E i \in 1..Len(xCalls) : xCalls[i].method = "invoke_text" /\ xCalls[i].name = "analysis"

\* the call of invoke_text for the analysis prompt raised
AnalysisFailed ==
    /\ xCalls # <<>>
    /\ xCalls[Len(xCalls)]
          = [method |-> "invoke_text", name |-> "analysis",
             arguments |-> JStr(xReq.query), outcome |-> "raise"]

\* C21: a tool result that carries an error does not keep execute from
\* attempting the LLM analysis, and when the analysis call fails execute
\* still returns the envelope, with the tool result and a failure text as
\* llm_analysis, instead of raising.
C21_AnalysisFailureReported ==
    /\ (ExecDone /\ xReq.use_llm /\ xRaw = ErrorResult) => AnalysisAttempted
    /\ AnalysisFailed =>
          /\ ExecReturned
          /\ Get(xOut.val, "mcp_result") = McpResult
          /\ IsStr(Get(xOut.val, "llm_analysis"))

\* where a call stands in execute: 1 the classification, 2 the selected
\* tool, 3 a follow-up fetch, 4 the analysis
Phase(c) ==
    CASE c.method = "invoke_text" /\ c.name = "intent" -> 1
      [] c.method = "call_tool" -> 2
      [] c.method = "platform_core_get_document_by_id" -> 3
      [] c.method = "invoke_text" /\ c.name = "analysis" -> 4

\* the step makes the LLM call of the classification
ClassifiesWithLlm ==
    /\ Len(xCalls') = Len(xCalls) + 1
    /\ Phase(xCalls'[Len(xCalls')]) = 1

CallsInOrder ==
    /\ \A i, j \in 1..Len(xCalls) :
          i < j => /\ Phase(xCalls[i]) <= Phase(xCalls[j])
                   /\ Phase(xCalls[i]) = Phase(xCalls[j]) => Phase(xCalls[i]) = 3
    /\ \A i \in 1..Len(xCalls) :
          /\ Phase(xCalls[i]) \in {1, 4} => xReq.use_llm
          /\ Phase(xCalls[i]) = 2 => i = (IF xReq.use_llm /\ Phase(xCalls[1]) = 1 THEN 2 ELSE 1)
          /\ Phase(xCalls[i]) = 2 =>
                xPc = "call" \/ xCalls[i].name = Get(xIntent, "tool").v
          /\ Phase(xCalls[i]) \in {3, 4} => ToolCalls # <<>> /\ ToolCalls[1].outcome = "return"
          /\ Phase(xCalls[i]) = 4 => i = Len(xCalls)
    /\ FetchCalls # <<>> =>
          /\ SearchPayloadReturned
          /\ LET refs == ReferencedAmong(xReq.top_n) IN
             /\ Len(FetchCalls) <= Len(refs)
             /\ \A i \in 1..Len(FetchCalls) :
                   FetchCalls[i].arguments
                     = JObj(("index" :> RefIndex(refs[i])) @@ ("id" :> RefId(refs[i])))

\* C27: the calls of one run of execute come in this order: the LLM call
\* of the classification (made only when use_llm is true and the cache
\* misses), the one call of the selected tool, the follow-up fetches in hit
\* order, the LLM call of the analysis (made only when use_llm is true);
\* nothing is called after the analysis call.
C27_CallOrder ==
    /\ []CallsInOrder
    /\ [][ClassifiesWithLlm => xReq.use_llm /\ CacheKey(xReq.query) \notin DOMAIN xCache]_vars
    /\ [][(xPc = "intent" /\ xReq.use_llm /\ CacheKey(xReq.query) \in DOMAIN xCache)
             => xCalls' = xCalls]_vars

\* C27's case: a run with use_llm that classified with the LLM, called the
\* search tool, fetched two documents and then asked for the analysis
C27_Witness ==
    /\ ExecReturned /\ xReq.use_llm /\ Len(xCalls) = 5
    /\ <<Phase(xCalls[1]), Phase(xCalls[2]), Phase(xCalls[3]), Phase(xCalls[4]),
         Phase(xCalls[5])>> = <<1, 2, 3, 3, 4>>
    /\ xCalls[3].arguments # xCalls[4].arguments

\* a run with use_llm whose intent came from the cache: the first call is
\* the tool's
C27_CacheHit ==
    /\ ExecReturned /\ xReq.use_llm /\ Len(xCalls) = 2
    /\ <<Phase(xCalls[1]), Phase(xCalls[2])>> = <<2, 4>>

\* max(0, top_n)
TopN == IF xReq.top_n < 0 THEN 0 ELSE xReq.top_n

\* the bounds on the follow-up fetches, on the LLM calls and on the HTTP
\* requests; _rpc sends at most Retries requests for one call of the tool
\* invoker
CallBounds ==
    /\ Len(ToolCalls) <= 1
    /\ Len(FetchCalls) <= TopN
    /\ FetchCalls # <<>> => Len(FetchCalls) <= Len(ReferencedAmong(xReq.top_n))
    /\ Len(LlmCalls) <= 2
    /\ \A i, j \in 1..Len(LlmCalls) : LlmCalls[i].name = LlmCalls[j].name => i = j
    /\ xReq.invoker = "MCPClient" =>
          Retries * (Len(ToolCalls) + Len(FetchCalls)) <= 3 * (1 + TopN)

LacksContent(hit) == ~Truthy(Field(Field(hit, "data"), "content"))

\* C29: the enricher does not raise over hits that lack data, the
\* reference, its id or index, or the content: a run without use_llm whose
\* tool returned a search payload and whose fetches all succeeded returns; a
\* hit without a usable id and index gets no follow-up call; and a hit with
\* a reference and no content is enriched with empty search_highlights.
C29_MissingFieldsNeverCrash ==
    (/\ ExecDone /\ ~xReq.use_llm /\ xReq.invoker = "MCPClient"
     /\ SearchPayloadReturned
     /\ \A i \in 1..Len(FetchCalls) : FetchCalls[i].outcome = "return") =>
        /\ ExecReturned /\ ReturnedEnriched
        /\ LET refs == ReferencedAmong(xReq.top_n) IN
           /\ Len(FetchCalls) = Len(refs)
           /\ Len(ReturnedEnrichedHits) = Len(refs)
           /\ \A i \in 1..Len(refs) :
                 LacksContent(refs[i]) =>
                    Get(ReturnedEnrichedHits[i], "search_highlights") = JArr(<<>>)

(***************************************************************************)
(* SpecCache: a process serving execute calls on several threads, seen     *)
(* from the state the calls share: the intent cache _INTENT_CACHE of       *)
(* service.py and the settings cache _cached_settings of config.py.  A     *)
(* thread runs one call at a time; the calls of different threads          *)
(* interleave between their accesses to the shared state and their calls   *)
(* of the LLM client and the tool invoker.                                  *)
(***************************************************************************)
\* the worker threads; a call goes to the first one that is free
Threads == {1, 2}

\* the calls of execute the process serves in one behaviour
MaxRequests == 3

ServeQueries == {"Hello", " hello ", "list all indices"}

ServeRequests ==
    [query : ServeQueries, use_llm : {TRUE}]
    \cup [query : {"Hello"}, use_llm : {FALSE}]

\* the Settings object get_settings builds from the environment
Settings == JStr("Settings")

\* what _analyze_query_intent_with_llm makes of each text of the LLM
IntentOfText == [text \in LlmIntentTexts |-> IntentFromText(text)]

\* _analyze_query_intent_rule_based(query) for each query
RuleBasedIntent == [q \in ServeQueries |-> IntentDict(AnalyzeQueryIntentRuleBased(q))]

\* the assignment under `if cache_key not in _INTENT_CACHE`
CacheStore_KeepFirst(cache, cache_key, data) ==
    IF cache_key \in DOMAIN cache THEN cache ELSE (cache_key :> data) @@ cache

\* _INTENT_CACHE[cache_key] = data
CacheStore(cache, cache_key, data) == (cache_key :> data) @@ cache

\* execute, line 269, with the test of use_llm left out
UsesLlm_Always(req) == TRUE

\* execute, line 269: the classification goes through the LLM and its cache
UsesLlm(req) == req.use_llm

\* a thread between two calls
IdleThread ==
    [pc |-> "idle", req |-> [query |-> "", use_llm |-> FALSE], seen |-> JNull,
     text |-> JNull, intent |-> JNull, src |-> "", calls |-> 0]

InFlight(t) == th[t].pc # "idle"

\* the shared locations: _cached_settings and the entries of _INTENT_CACHE
SettingsLocation == <<"_cached_settings", "">>

CacheLocation(cache_key) == <<"_INTENT_CACHE", cache_key>>

\* the assignments so far with one more, of val to the location loc by the
\* call for query
Written(loc, val, query) ==
    IF loc \in DOMAIN writes
    THEN [writes EXCEPT ![loc] = Append(@, [val |-> val, by |-> query])]
    ELSE (loc :> <<[val |-> val, by |-> query]>>) @@ writes

\* a call with use_llm = False past its classification, as ruleServed keeps
\* it: its query, its intent, and the cache entry of its key when it began
Served(s) == [query |-> s.req.query, intent |-> s.intent, seen |-> s.seen]

\* the accesses of the calls with use_llm = False so far, with `what` added
\* when s is such a call
Accessed(s, what) == IF s.req.use_llm THEN ruleAccesses ELSE ruleAccesses \cup {what}

CacheIdle ==
    /\ th = [t \in Threads |-> IdleThread]
    /\ intentCache = EmptyCache /\ cachedSettings = JNull
    /\ writes = [loc \in {} |-> <<>>] /\ ruleServed = {} /\ ruleAccesses = {}
    /\ raced = FALSE
    /\ started = 0 /\ overlap = FALSE

\* thread t's call returns
Returns(t) == th' = [th EXCEPT ![t] = IdleThread] /\ UNCHANGED raced

\* thread t's call raises exc
Raises(t, exc) ==
    /\ th' = [th EXCEPT ![t] = IdleThread]
    /\ raced' = (raced \/ exc.type = "KeyError")

\* thread t's call goes on as s
GoOn(t, s) == th' = [th EXCEPT ![t] = s] /\ UNCHANGED <<ruleServed, raced>>

\* thread t's call has its intent and goes on to the rest of execute
Classified(t, s) ==
    /\ th' = [th EXCEPT ![t] = [s EXCEPT !.pc = "rest"]]
    /\ ruleServed' = IF s.req.use_llm THEN ruleServed ELSE ruleServed \cup {Served(s)}
    /\ UNCHANGED raced

\* execute is called: cfg = get_settings() up to its test of _cached_settings
Begin(t) ==
    /\ ~InFlight(t)
    /\ \A u \in Threads : u < t => InFlight(u)
    /\ started < MaxRequests
    /\ started' = started + 1
    /\ overlap' = (overlap \/ \E u \in Threads \ {t} : InFlight(u))
    /\ \E req \in ServeRequests :
          th' = [th EXCEPT ![t] = [IdleThread EXCEPT !.req = req,
                    !.seen = IF CacheKey(req.query) \in DOMAIN intentCache
                             THEN intentCache[CacheKey(req.query)] ELSE JNull,
                    !.pc = IF cachedSettings = JNull THEN "settings" ELSE "intent"]]
    /\ UNCHANGED <<intentCache, cachedSettings, writes, ruleServed, ruleAccesses, raced>>

\* get_settings found no settings: it reads the environment and assigns
\* _cached_settings
LoadSettings(t) ==
    /\ th[t].pc = "settings"
    /\ cachedSettings' = Settings
    /\ writes' = Written(SettingsLocation, Settings, "")
    /\ GoOn(t, [th[t] EXCEPT !.pc = "intent"])
    /\ UNCHANGED <<intentCache, ruleAccesses, started, overlap>>

\* execute, line 269: the rule-based classifier, or the first lines of
\* _analyze_query_intent_with_llm up to `cache_key in _INTENT_CACHE`
Intent(t) ==
    /\ th[t].pc = "intent"
    /\ IF ~UsesLlm(th[t].req)
       THEN /\ Classified(t, [th[t] EXCEPT !.src = "rule",
                                           !.intent = RuleBasedIntent[th[t].req.query]])
            /\ UNCHANGED ruleAccesses
       ELSE /\ GoOn(t, [th[t] EXCEPT
                           !.pc = IF CacheKey(th[t].req.query) \in DOMAIN intentCache
                                  THEN "hit" ELSE "miss"])
            /\ ruleAccesses' = Accessed(th[t], "cache read")
    /\ UNCHANGED <<intentCache, cachedSettings, writes, started, overlap>>

\* return _INTENT_CACHE[cache_key]
CacheGet(t) ==
    /\ th[t].pc = "hit"
    /\ ruleAccesses' = Accessed(th[t], "cache read")
    /\ IF CacheKey(th[t].req.query) \in DOMAIN intentCache
       THEN Classified(t, [th[t] EXCEPT !.src = "cache",
                                        !.intent = intentCache[CacheKey(th[t].req.query)]])
       ELSE /\ Raises(t, Raise("KeyError", CacheKey(th[t].req.query)))
            /\ UNCHANGED ruleServed
    /\ UNCHANGED <<intentCache, cachedSettings, writes, started, overlap>>

\* text = llm.invoke_text(...) for the classification prompt
Invoke(t) ==
    /\ th[t].pc = "miss"
    /\ ruleAccesses' = Accessed(th[t], "llm classification")
    /\ \E o \in LlmOutcomes(LlmIntentTexts) :
          IF o.kind = "raise"
          THEN Raises(t, o) /\ UNCHANGED ruleServed
          ELSE GoOn(t, [th[t] EXCEPT !.calls = @ + 1, !.text = o.val, !.pc = "parse"])
    /\ UNCHANGED <<intentCache, cachedSettings, writes, started, overlap>>

\* the try of _analyze_query_intent_with_llm: the text is parsed, a complete
\* intent is stored and returned, anything else gives the fallback
Store(t) ==
    /\ th[t].pc = "parse"
    /\ LET r == IntentOfText[th[t].text.v]
           cache_key == CacheKey(th[t].req.query)
       IN  IF r.cached
           THEN /\ intentCache' = CacheStore(intentCache, cache_key, r.intent)
                /\ writes' = Written(CacheLocation(cache_key), r.intent, th[t].req.query)
                /\ ruleAccesses' = Accessed(th[t], "cache write")
                /\ Classified(t, [th[t] EXCEPT !.src = "llm", !.intent = r.intent])
           ELSE /\ Classified(t, [th[t] EXCEPT !.src = "fallback", !.intent = r.intent])
                /\ UNCHANGED <<intentCache, writes, ruleAccesses>>
    /\ UNCHANGED <<cachedSettings, started, overlap>>

\* the rest of execute, lines 272-313: the tool call and the enrichment, which
\* return or raise, and with use_llm the analysis, one more call of the LLM
Rest(t) ==
    /\ th[t].pc = "rest"
    /\ \/ Raises(t, ToolFailure) /\ UNCHANGED ruleAccesses
       \/ /\ ~th[t].req.use_llm
          /\ Returns(t) /\ UNCHANGED ruleAccesses
       \/ /\ th[t].req.use_llm
          /\ ruleAccesses' = Accessed(th[t], "llm analysis")
          /\ \E o \in LlmOutcomes(AnalysisTexts) :
                IF o.kind = "raise" THEN Raises(t, o) ELSE Returns(t)
    /\ UNCHANGED <<intentCache, cachedSettings, writes, ruleServed, started, overlap>>

(***************************************************************************)
(* Claims about the LLM-based classification and the intent cache          *)
(* (SpecCache)                                                              *)
(***************************************************************************)
\* the JSON object a text holds between its first "{" and its last "}"
ObjectIn(text) ==
    IF Find(text, "{") = 0 \/ RFind(text, "}") < Find(text, "{") THEN NoJson
    ELSE JsonLoads(SubSeq(text, Find(text, "{"), RFind(text, "}")))

\* the texts of the LLM that hold no parsable JSON object, or an object that
\* lacks one of intent, action, tool, confidence
TextsWithoutIntent ==
    {text \in LlmIntentTexts :
        \/ ~ObjectIn(text).ok
        \/ ~IsDict(ObjectIn(text).val)
        \/ \E k \in IntentFields : ~Has(ObjectIn(text).val, k)}

\* thread t's call has its intent from the LLM's answer `text`
AnsweredBy(t, text) ==
    th[t].pc = "rest" /\ th[t].req.use_llm /\ th[t].text = JStr(text)

\* C12: when the LLM's answer holds no parsable JSON object, or one that lacks
\* a required field, _analyze_query_intent_with_llm returns the rule-based
\* default intent: action search_groceries, tool platform_core_search,
\* confidence 0.5.
C12_FallbackIsRuleBasedDefault ==
    \A t \in Threads : \A text \in TextsWithoutIntent :
        AnsweredBy(t, text) =>
            /\ Get(th[t].intent, "action") = JStr("search_groceries")
            /\ Get(th[t].intent, "tool") = JStr("platform_core_search")
            /\ Get(th[t].intent, "confidence") = JFloat("0.5")

\* the locations of _INTENT_CACHE assigned so far
CacheLocations == {loc \in DOMAIN writes : loc[1] = "_INTENT_CACHE"}

\* the assignments to _INTENT_CACHE so far
CacheWrites == UNION {{writes[loc][i] : i \in 1..Len(writes[loc])} : loc \in CacheLocations}

\* the lower-cased trimmed text of each query
KeyOf == [q \in ServeQueries |-> Strip(Lower(q))]

\* two queries have the same lower-cased trimmed text
SameText(q1, q2) == KeyOf[q1] = KeyOf[q2]

\* thread t's call with use_llm = True has its intent
LlmClassified(t) == th[t].pc = "rest" /\ th[t].req.use_llm

\* C13: in a run of sequential calls, once an LLM-based classification has
\* succeeded (its intent was stored), every later LLM-based classification of
\* a query with the same lower-cased trimmed text returns that same intent,
\* from the cache and without a call of the LLM for the classification; and
\* no cache entry is removed or replaced: each key was assigned once and the
\* cache holds what was assigned.
C13_CacheHit ==
    ~overlap =>
        /\ \A t \in Threads : \A w \in CacheWrites :
              (LlmClassified(t) /\ SameText(w.by, th[t].req.query)) =>
                  /\ th[t].intent = w.val
                  /\ th[t].src \in {"llm", "cache"}
                  /\ th[t].src = "llm" => th[t].calls = 1 /\ w.by = th[t].req.query
                  /\ th[t].src = "cache" => th[t].calls = 0
                  /\ th[t].seen # JNull => th[t].src = "cache"
        /\ \A loc \in CacheLocations :
              /\ Len(writes[loc]) = 1
              /\ loc[2] \in DOMAIN intentCache
              /\ intentCache[loc[2]] = writes[loc][1].val
        /\ DOMAIN intentCache = {loc[2] : loc \in CacheLocations}

\* C13's case: "Hello" was classified by the LLM and stored; a later call for
\* " hello " has the same intent from the cache, with no call of the LLM
C13_Witness ==
    /\ ~overlap
    /\ \E t \in Threads : \E w \in CacheWrites :
          /\ LlmClassified(t) /\ th[t].req.query = " hello " /\ w.by = "Hello"
          /\ th[t].src = "cache" /\ th[t].calls = 0 /\ th[t].intent = w.val

\* no call failed with a KeyError of the cache, and a call that missed the
\* cache has the intent it computed itself from its own LLM answer
OwnIntents ==
    /\ ~raced
    /\ \A t \in Threads :
          (LlmClassified(t) /\ th[t].src \in {"llm", "fallback"}) =>
              /\ th[t].calls = 1
              /\ th[t].intent = IntentOfText[th[t].text.v].intent

\* the cache holds, for each key assigned so far and for no other, the value
\* assigned last, and a key was only ever assigned by a call for that key
LastWriterWins ==
    /\ DOMAIN intentCache = {loc[2] : loc \in CacheLocations}
    /\ \A loc \in CacheLocations :
          /\ intentCache[loc[2]] = writes[loc][Len(writes[loc])].val
          /\ \A i \in 1..Len(writes[loc]) : KeyOf[writes[loc][i].by] = loc[2]

C15_RuleBasedIsPure ==
    /\ ruleAccesses = {}
    /\ \A a, b \in ruleServed : a.query = b.query => a.intent = b.intent
    /\ \A a \in ruleServed : a.intent = RuleBasedIntent[a.query]

\* C15's case: "Hello" was classified by the rules twice, before and after a
\* call with use_llm = True stored an intent under its key, with the same
\* intent both times, which is not the stored one
C15_Witness ==
    \E a, b \in ruleServed :
        /\ a.query = "Hello" /\ b.query = "Hello"
        /\ a.seen = JNull /\ b.seen # JNull
        /\ a.intent = b.intent /\ b.intent # b.seen

\* the step by which thread t's classification ends
ClassificationEnds(t) == th[t].pc \in {"hit", "miss", "parse"} /\ th'[t].pc # th[t].pc

\* the keys that are lower-cased trimmed queries: lower-casing and trimming
\* them once more leaves them as they are
NormalKeys == {k \in {KeyOf[q] : q \in ServeQueries} : k = Strip(Lower(k))}

\* each entry has a lower-cased trimmed query as its key and an intent with
\* the four fields as its value, and a classification that found no entry
\* called the LLM
CacheEntriesComplete ==
    /\ \A k \in DOMAIN intentCache :
          /\ k \in NormalKeys
          /\ IsDict(intentCache[k])
          /\ \A f \in {"intent", "action", "tool", "confidence"} : Has(intentCache[k], f)
    /\ \A t \in Threads :
          LlmClassified(t) =>
              /\ th[t].src \in {"cache", "llm", "fallback"}
              /\ th[t].src = "cache" =>
                    /\ th[t].calls = 0
                    /\ CacheLocation(KeyOf[th[t].req.query]) \in DOMAIN writes
              /\ th[t].src # "cache" => th[t].calls = 1
              /\ (~overlap /\ th[t].seen = JNull) => th[t].calls = 1
              /\ th[t].src = "fallback" <=> (th[t].calls = 1
                                              /\ th[t].text.v \in TextsWithoutIntent)

\* C30: every entry of the intent cache is keyed by a lower-cased, trimmed
\* query and holds an intent with the fields intent, action, tool and
\* confidence; a classification that ends in the fallback intent or in an
\* error of the LLM leaves the cache as it was, so that a later LLM-based
\* call for the same query, finding no entry, calls the LLM again.
C30_CacheInvariant ==
    /\ []CacheEntriesComplete
    /\ [][\A t \in Threads :
             (/\ ClassificationEnds(t)
              /\ \/ th'[t].pc = "idle"
                 \/ th[t].pc = "parse" /\ th[t].text.v \in TextsWithoutIntent)
                 => intentCache' = intentCache /\ writes' = writes]_vars

\* C30's case: a call for "Hello" ended its classification in the fallback
\* intent and stored nothing; a call for " hello ", the same key, found no
\* entry either and called the LLM
C30_Witness ==
    \E t, u \in Threads :
        /\ t # u
        /\ LlmClassified(t) /\ th[t].src = "fallback" /\ th[t].req.query = "Hello"
        /\ th[u].req.use_llm /\ th[u].req.query = " hello " /\ th[u].pc \in {"parse", "rest"}
        /\ th[u].seen = JNull /\ th[u].calls = 1
        /\ "hello" \notin DOMAIN intentCache

(***************************************************************************)
(* SpecHttp: the analyze endpoints of src/web_ui.py.  A handler calls       *)
(* execute(query, use_llm=use_llm) with the default limit and offset; how   *)
(* that call ends is an input here.  Of a response the status and the body  *)
(* are kept; of the form endpoint's body the timestamp and the formatted    *)
(* text, which the formatters build without raising, are left out.          *)
(***************************************************************************)
Endpoints == {"/api/analyze", "/api/v1/analyze"}

HttpRequests == [query : ExecQueries, use_llm : BOOLEAN]

\* the arguments of the handler's call of execute
HandlerCall(req) ==
    [query |-> req.query, use_llm |-> req.use_llm, limit |-> 20, offset |-> 0,
     top_n |-> 5, invoker |-> "MCPClient"]

\* the envelopes execute may return to the handler
Envelopes(req) ==
    {IF req.use_llm THEN WithAnalysis(out, JStr("ANALYSIS")) ELSE out :
        out \in {ExecuteOut(HandlerCall(req), IntentDict(AnalyzeQueryIntentRuleBased(req.query)), raw) :
                     raw \in {TextResult("no results"), ErrorResult}}}

\* the ways the handler's call of execute may end
ExecuteOutcomes(req) ==
    {Return(e) : e \in Envelopes(req)}
    \cup {ToolFailure, NoneHasNoGet, NotSubscriptable, NoAttribute}
    \cup (IF req.use_llm THEN {LlmFailure} ELSE {})

NoResponse == [status |-> 0, body |-> JNull]

Response(status, body) == [status |-> status, body |-> body]

\* FastAPI's response to a raised HTTPException(status_code, detail)
HttpExceptionResponse(status_code, detail) ==
    Response(status_code, JObj("detail" :> JStr(detail)))

\* Starlette's response to an exception that leaves a handler
ServerErrorResponse == Response(500, JStr("Internal Server Error"))

HttpIdle ==
    /\ hEndpoint = "" /\ hReq = [query |-> "", use_llm |-> FALSE]
    /\ hOutcome = NoOut /\ hResponse = NoResponse

\* POST /api/analyze
AnalyzeQuery ==
    /\ hEndpoint = "/api/analyze" /\ hResponse = NoResponse
    /\ hResponse' =
          IF hOutcome.kind = "raise"
          THEN HttpExceptionResponse(500, "Analysis failed: " \o hOutcome.msg)
          ELSE Response(200, JObj(("query" :> JStr(hReq.query))
                                  @@ ("intent" :> Get(hOutcome.val, "intent"))
                                  @@ ("mcp_result" :> Get(hOutcome.val, "mcp_result"))))
    /\ UNCHANGED <<hEndpoint, hReq, hOutcome>>

\* POST /api/v1/analyze
AnalyzeV1 ==
    /\ hEndpoint = "/api/v1/analyze" /\ hResponse = NoResponse
    /\ hResponse' =
          IF hOutcome.kind = "raise"
          THEN ServerErrorResponse
          ELSE Response(200, hOutcome.val)
    /\ UNCHANGED <<hEndpoint, hReq, hOutcome>>

(***************************************************************************)
(* Claims about the HTTP layer (SpecHttp)                                   *)
(***************************************************************************)
\* C22: every exception raised while an analyze request is served, on the
\* form endpoint and on the /api/v1 endpoint alike, becomes a 500 response
\* whose `detail` field contains the exception's text.
C22_ExceptionsBecome500WithDetail ==
    (hResponse # NoResponse /\ hOutcome.kind = "raise") =>
        /\ hResponse.status = 500
        /\ IsDict(hResponse.body)
        /\ IsStr(Get(hResponse.body, "detail"))
        /\ Contains(Get(hResponse.body, "detail").v, hOutcome.msg)

(***************************************************************************)
(* SpecLlm: BedrockLLMClient.invoke and invoke_text                         *)
(* (src/src/core/llm_client.py).  One turn of the loop, with the sleep or   *)
(* the raise that follows a failed provider call, is one step.              *)
(***************************************************************************)
MaxRetries == 3

\* the calls: the method and its arguments retries and base_delay_s
LlmCallsOf ==
    [method : {"invoke", "invoke_text"}, retries : 0..MaxRetries, base_delay_s : {1, 2}]

ThrottlingSignal == "ThrottlingException"

\* what one provider call does: invoke_model and json.loads of the body give
\* data, or one of them raises an exception with the text msg
ProviderOutcomes ==
    { [ok |-> TRUE, data |-> JObj("content" :> JArr(<<TextBlock("Bonjour")>>)), msg |-> ""],
      [ok |-> TRUE, data |-> JObj("content" :> JArr(<<>>)), msg |-> ""],
      [ok |-> FALSE, data |-> JNull,
       msg |-> "An error occurred (ThrottlingException) when calling the InvokeModel operation"],
      [ok |-> FALSE, data |-> JNull,
       msg |-> "An error occurred (ValidationException) when calling the InvokeModel operation"],
      [ok |-> FALSE, data |-> JNull, msg |-> "Expecting value: line 1 column 1 (char 0)"] }

ProviderCall(o) == [kind |-> "call", ok |-> o.ok, msg |-> o.msg, seconds |-> 0]

Sleep(seconds) == [kind |-> "sleep", ok |-> TRUE, msg |-> "", seconds |-> seconds]

\* a delay with the attempts counted from 1
BackoffDelay_FromOne(base_delay_s, a) == base_delay_s * Pow(2, a + 1)

\* delay = base_delay_s * (2 ** attempt)
BackoffDelay(base_delay_s, a) == base_delay_s * Pow(2, a)

\* raise LLMInvokeError(f"Bedrock invocation failed: {last_error}")
InvokeFailed(last_error) == Raise("LLMInvokeError", "Bedrock invocation failed: " \o last_error)

LlmIdle ==
    /\ lPc = "idle" /\ lCall = [method |-> "", retries |-> 0, base_delay_s |-> 0]
    /\ lAttempt = 0 /\ lEvents = <<>> /\ lData = JNull /\ lOut = NoOut

\* one turn of `for attempt in range(retries)`; after a failure either the
\* sleep and the next turn, or the break and the raise
LlmAttempt ==
    /\ lPc = "loop" /\ lAttempt < lCall.retries
    /\ \E o \in ProviderOutcomes :
       IF o.ok
       THEN /\ lEvents' = Append(lEvents, ProviderCall(o))
            /\ lData' = o.data
            /\ IF lCall.method = "invoke"
               THEN lPc' = "returned" /\ lOut' = Return(o.data)
               ELSE lPc' = "text" /\ lOut' = NoOut
            /\ UNCHANGED lAttempt
       ELSE IF Contains(o.msg, ThrottlingSignal) /\ lAttempt < lCall.retries - 1
       THEN /\ lEvents' = lEvents \o <<ProviderCall(o),
                                        Sleep(BackoffDelay(lCall.base_delay_s, lAttempt))>>
            /\ lAttempt' = lAttempt + 1
            /\ UNCHANGED <<lPc, lData, lOut>>
       ELSE /\ lEvents' = Append(lEvents, ProviderCall(o))
            /\ lPc' = "raised" /\ lOut' = InvokeFailed(o.msg)
            /\ UNCHANGED <<lAttempt, lData>>
    /\ UNCHANGED lCall

\* range(retries) is empty: the raise with last_error None
LlmNoAttempt ==
    /\ lPc = "loop" /\ lAttempt >= lCall.retries
    /\ lPc' = "raised" /\ lOut' = InvokeFailed("None")
    /\ UNCHANGED <<lCall, lAttempt, lEvents, lData>>

\* invoke_text: data['content'][0]['text'], or LLMInvokeError
LlmText ==
    /\ lPc = "text"
    /\ IF /\ IsDict(lData) /\ IsList(Get(lData, "content"))
          /\ Len(Get(lData, "content").v) > 0
          /\ IsDict(Get(lData, "content").v[1]) /\ Has(Get(lData, "content").v[1], "text")
       THEN lPc' = "returned" /\ lOut' = Return(Get(Get(lData, "content").v[1], "text"))
       ELSE /\ lPc' = "raised"
            /\ lOut' = Raise("LLMInvokeError",
                             "Unexpected Bedrock response format: list index out of range")
    /\ UNCHANGED <<lCall, lAttempt, lEvents, lData>>

(***************************************************************************)
(* Claims about the LLM client (SpecLlm)                                    *)
(***************************************************************************)
\* the number of provider calls among the first n events
ProviderCallsUpTo(n) == Cardinality({i \in 1..n : lEvents[i].kind = "call"})

Throttled(e) == e.kind = "call" /\ ~e.ok /\ Contains(e.msg, "ThrottlingException")

\* C26: at most `retries` provider calls are made; a further call is made
\* only after a failure whose text holds "ThrottlingException", and after a
\* sleep of base_delay_s * 2^attempt seconds, attempt counted from 0; a
\* failure without that signal ends the call at once, with no sleep; no
\* sleep follows the last attempt; and a failing call ends by raising
\* LLMInvokeError.
C26_LlmRetry ==
    /\ ProviderCallsUpTo(Len(lEvents)) <= lCall.retries
    /\ \A i \in 1..Len(lEvents) :
          /\ (lEvents[i].kind = "call" /\ i > 1) =>
                /\ lEvents[i - 1].kind = "sleep"
                /\ i > 2 /\ Throttled(lEvents[i - 2])
          /\ lEvents[i].kind = "sleep" =>
                /\ i > 1 /\ Throttled(lEvents[i - 1])
                /\ lEvents[i].seconds
                      = lCall.base_delay_s * Pow(2, ProviderCallsUpTo(i) - 1)
                /\ ProviderCallsUpTo(i) < lCall.retries
          /\ (lEvents[i].kind = "call" /\ ~lEvents[i].ok /\ ~Throttled(lEvents[i])) =>
                i = Len(lEvents) /\ lPc = "raised"
          /\ (lEvents[i].kind = "call" /\ lEvents[i].ok) => i = Len(lEvents)
    /\ (lEvents # <<>> /\ ~lEvents[Len(lEvents)].ok) =>
          /\ lPc = "raised"
          /\ lOut.kind = "raise" /\ lOut.type = "LLMInvokeError"
    /\ lPc = "raised" => lOut.kind = "raise" /\ lOut.type = "LLMInvokeError"
    /\ lPc = "returned" => lEvents # <<>> /\ lEvents[Len(lEvents)].ok

\* C26's case: invoke_text with retries = 3 and base_delay_s = 2 was
\* throttled three times, slept 2 and 4 seconds, and raised LLMInvokeError
C26_Witness ==
    /\ lCall = [method |-> "invoke_text", retries |-> 3, base_delay_s |-> 2]
    /\ Len(lEvents) = 5
    /\ Throttled(lEvents[1]) /\ lEvents[2] = Sleep(2)
    /\ Throttled(lEvents[3]) /\ lEvents[4] = Sleep(4)
    /\ Throttled(lEvents[5])
    /\ lPc = "raised" /\ lOut.type = "LLMInvokeError"

(***************************************************************************)
(* The specifications                                                      *)
(***************************************************************************)
InitParse ==
    /\ pResult \in ParseInputs /\ pDone = FALSE /\ pOut = JNull
    /\ RpcIdle /\ IntentIdle /\ ExecIdle /\ CacheIdle /\ HttpIdle /\ LlmIdle

NextParse == Parse /\ UNCHANGED <<rpcVars, intentVars, execVars, cacheVars, httpVars, llmVars>>

SpecParse == InitParse /\ [][NextParse]_vars

InitRpc == RpcIdle /\ ParseIdle /\ IntentIdle /\ ExecIdle /\ CacheIdle /\ HttpIdle /\ LlmIdle

NextRpc ==
    \/ RpcCall /\ UNCHANGED <<parseVars, intentVars, execVars, cacheVars, httpVars, llmVars>>
    \/ RpcPost /\ UNCHANGED <<parseVars, intentVars, execVars, cacheVars, httpVars, llmVars>>

SpecRpc == InitRpc /\ [][NextRpc]_vars

InitIntent ==
    /\ iQuery \in Queries /\ iDone = FALSE /\ iIntent = NoIntent
    /\ RpcIdle /\ ParseIdle /\ ExecIdle /\ CacheIdle /\ HttpIdle /\ LlmIdle

NextIntent == Classify /\ UNCHANGED <<parseVars, rpcVars, execVars, cacheVars, httpVars, llmVars>>

SpecIntent == InitIntent /\ [][NextIntent]_vars

InitExec ==
    /\ xPc = "intent" /\ xReq \in Requests /\ xIntent = JNull /\ xRaw = JNull
    /\ xParsed = JNull
    /\ xHits = <<>> /\ xNext = 0 /\ xEnriched = <<>> /\ xCalls = <<>>
    /\ xOut = NoOut /\ xText = JNull
    /\ xCache \in InitialCaches(xReq)
    /\ RpcIdle /\ ParseIdle /\ IntentIdle /\ CacheIdle /\ HttpIdle /\ LlmIdle

NextExec ==
    \/ ExecIntent /\ UNCHANGED <<parseVars, rpcVars, intentVars, cacheVars, httpVars, llmVars>>
    \/ ExecCallTool /\ UNCHANGED <<parseVars, rpcVars, intentVars, cacheVars, httpVars, llmVars>>
    \/ ExecEnrich /\ UNCHANGED <<parseVars, rpcVars, intentVars, cacheVars, httpVars, llmVars>>
    \/ ExecAnalysis /\ UNCHANGED <<parseVars, rpcVars, intentVars, cacheVars, httpVars, llmVars>>

SpecExec == InitExec /\ [][NextExec]_vars

InitCache ==
    CacheIdle /\ RpcIdle /\ ParseIdle /\ IntentIdle /\ ExecIdle /\ HttpIdle /\ LlmIdle

NextCache ==
    \/ \E t \in Threads : Begin(t)
          /\ UNCHANGED <<parseVars, rpcVars, intentVars, execVars, httpVars, llmVars>>
    \/ \E t \in Threads : LoadSettings(t)
          /\ UNCHANGED <<parseVars, rpcVars, intentVars, execVars, httpVars, llmVars>>
    \/ \E t \in Threads : Intent(t)
          /\ UNCHANGED <<parseVars, rpcVars, intentVars, execVars, httpVars, llmVars>>
    \/ \E t \in Threads : CacheGet(t)
          /\ UNCHANGED <<parseVars, rpcVars, intentVars, execVars, httpVars, llmVars>>
    \/ \E t \in Threads : Invoke(t)
          /\ UNCHANGED <<parseVars, rpcVars, intentVars, execVars, httpVars, llmVars>>
    \/ \E t \in Threads : Store(t)
          /\ UNCHANGED <<parseVars, rpcVars, intentVars, execVars, httpVars, llmVars>>
    \/ \E t \in Threads : Rest(t)
          /\ UNCHANGED <<parseVars, rpcVars, intentVars, execVars, httpVars, llmVars>>

SpecCache == InitCache /\ [][NextCache]_vars

InitHttp ==
    /\ hEndpoint \in Endpoints /\ hReq \in HttpRequests
    /\ hOutcome \in ExecuteOutcomes(hReq) /\ hResponse = NoResponse
    /\ RpcIdle /\ ParseIdle /\ IntentIdle /\ ExecIdle /\ CacheIdle /\ LlmIdle

NextHttp ==
    \/ AnalyzeQuery /\ UNCHANGED <<parseVars, rpcVars, intentVars, execVars, cacheVars, llmVars>>
    \/ AnalyzeV1 /\ UNCHANGED <<parseVars, rpcVars, intentVars, execVars, cacheVars, llmVars>>

SpecHttp == InitHttp /\ [][NextHttp]_vars

InitLlm ==
    /\ lPc = "loop" /\ lCall \in LlmCallsOf /\ lAttempt = 0 /\ lEvents = <<>>
    /\ lData = JNull /\ lOut = NoOut
    /\ RpcIdle /\ ParseIdle /\ IntentIdle /\ ExecIdle /\ CacheIdle /\ HttpIdle

NextLlm ==
    \/ LlmAttempt
          /\ UNCHANGED <<parseVars, rpcVars, intentVars, execVars, cacheVars, httpVars>>
    \/ LlmNoAttempt
          /\ UNCHANGED <<parseVars, rpcVars, intentVars, execVars, cacheVars, httpVars>>
    \/ LlmText
          /\ UNCHANGED <<parseVars, rpcVars, intentVars, execVars, cacheVars, httpVars>>

SpecLlm == InitLlm /\ [][NextLlm]_vars

====
